---------------------------- MODULE Spec2Model ----------------------------
(***************************************************************************)
(* Block-STM parallel EVM (block-stm-revm): the multi-version memory       *)
(* (src/src/mv_memory.rs), the execution wrapper (src/src/vm.rs), the      *)
(* driver and dependency preprocessing (src/src/pevm.rs), and the          *)
(* scheduler.  scheduler.rs is not part of the sources at hand; the        *)
(* scheduler operations are written from section 4.2 of the specification  *)
(* and each of them is one atomic step.                                    *)
(*                                                                         *)
(* The EVM interpreter is a black box for the repository.  Here it is a    *)
(* small deterministic transactor (Evm) over accounts and one contract     *)
(* storage slot: plain value transfers and three contract calls whose      *)
(* writes depend on what they read.                                        *)
(***************************************************************************)
EXTENDS Integers, Sequences, FiniteSets, TLC

\* ------------------------------------------------------------------ bounds
\* Highest concurrency_level handed to execute_revm.
MaxConcurrency == 2

\* ------------------------------------------------------ addresses, values
Coinbase == "cb"
Contract == "ct"
Payee    == "p"
Users    == {"a", "b", "c"}
Addrs    == Users \cup {Coinbase, Contract, Payee}

\* MemoryLocation::Basic(address) / MemoryLocation::Storage(address, slot)
Basic(addr)   == <<"Basic", addr>>
SlotLoc       == <<"Storage", Contract>>
Locs          == {Basic(a) : a \in Addrs} \cup {SlotLoc}

\* gas_price * gas_used of every transaction of the model (apply_rewards).
Fee == 1

Info(bal, n, c) == [balance |-> bal, nonce |-> n, code |-> c]

\* MemoryValue
VBasic(info) == [t |-> "Basic", info |-> info]
VLazy(n)     == [t |-> "LazyBalanceAddition", add |-> n]
VStorage(n)  == [t |-> "Storage", v |-> n]

\* MemoryEntry (NoEntry: the per-location map has no key for the index)
NoEntry       == [e |-> "None"]
Estimate      == [e |-> "Estimate"]
Data(inc, mv) == [e |-> "Data", inc |-> inc, val |-> mv]

\* ReadOrigin
OStorage       == [o |-> "Storage"]
OMv(idx, inc)  == [o |-> "MvMemory", tx_idx |-> idx, tx_incarnation |-> inc]

\* TxEnv: caller, transact_to, value, data ("" is empty calldata) and the
\* optional nonce (-1 is None: the nonce check is skipped).
Transfer(c, t, v) == [caller |-> c, to |-> t, value |-> v, data |-> "", nonce |-> -1]
Call(c, sel)      == [caller |-> c, to |-> Contract, value |-> 0, data |-> sel, nonce |-> -1]
WithNonce(tx, n)  == [tx EXCEPT !.nonce = n]

\* Chain state before the block: the Storage collaborator.
BaseBasic ==
    [a \in Addrs |->
        CASE a \in Users   -> Info(4, 0, 0)
          [] a = Coinbase  -> Info(2, 0, 0)
          [] a = Contract  -> Info(2, 1, 1)
          [] OTHER         -> Info(0, 0, 0)]

PreState(slot) == [basic |-> BaseBasic, slot |-> slot]

\* The blocks the model runs: each with the chain state it starts from.
Scenarios ==
    { \* storage conflict: tx1 writes the slot only when it runs before tx0, and
      \* tx2 reverts until the slot is set
      [txs |-> <<Call("a", "set"), Call("b", "set"), Call("c", "need")>>,
       pre |-> PreState(0)],
      \* tx1 pays only after tx0, and tx2 writes the slot only before tx0
      [txs |-> <<Call("a", "set"), Call("b", "pay"), Call("c", "set")>>,
       pre |-> PreState(0)],
      \* tx0 funds the payee by an internal transfer; tx2 is sent by the payee
      [txs |-> <<Call("a", "pay"), Transfer("b", "c", 1), Transfer(Payee, "c", 0)>>,
       pre |-> PreState(1)],
      \* the beneficiary sends tx2
      [txs |-> <<Transfer("a", "b", 1), Transfer("c", "b", 1), Transfer(Coinbase, "a", 1)>>,
       pre |-> PreState(0)],
      \* tx2 has a seeded sender dependency and a seeded recipient dependency
      [txs |-> <<Transfer("a", "b", 1), Transfer("c", Payee, 1), Transfer("a", Payee, 1)>>,
       pre |-> PreState(0)],
      \* tx0 and tx1 carry a nonce their senders do not have
      [txs |-> <<WithNonce(Transfer("a", "b", 1), 3),
                 WithNonce(Transfer("c", Payee, 1), 3), Call("b", "set")>>,
       pre |-> PreState(0)],
      \* tx1 pays the payee only before tx0, tx2 adds to the payee lazily and
      \* tx3, sent by the payee, reads the lazy addition on top of tx1's value
      [txs |-> <<Call("a", "need"), Call("b", "pay"), Transfer("c", Payee, 1),
                 Transfer(Payee, "c", 0)>>,
       pre |-> PreState(1)],
      \* the beneficiary sends tx2 and waits for tx1, which may run before tx0
      [txs |-> <<Call("a", "set"), Call("b", "set"), Transfer(Coinbase, "a", 1)>>,
       pre |-> PreState(0)],
      \* tx1 reverts however often it runs
      [txs |-> <<Transfer("a", "b", 1), Call("c", "need")>>,
       pre |-> PreState(0)] }

Min(a, b) == IF a < b THEN a ELSE b
Max(a, b) == IF a > b THEN a ELSE b

\* ------------------------------------------------------------- the EVM
\* execute_tx: the black-box transactor.  view.basic is what Database::basic
\* returns for each address and view.slot what Database::storage returns.
\* Result: the kind of outcome, the touched accounts with their new info,
\* the new value of the slot (-1: unchanged) and the locations read, in order.
Paid(tx, view) ==
    [view.basic[tx.caller] EXCEPT !.balance = @ - tx.value - Fee, !.nonce = @ + 1]

\* The outcomes that are Err(EVMError::Transaction(..)) of transact().
InvalidTransaction == {"NonceTooHigh", "NonceTooLow", "LackOfFundForMaxFee"}

Evm(tx, view) ==
    LET c  == view.basic[tx.caller]
        t  == view.basic[tx.to]
        s  == view.slot
        r0 == <<Basic(tx.caller)>>
        r1 == <<Basic(tx.caller), Basic(tx.to)>>
        r2 == <<Basic(tx.caller), Basic(tx.to), SlotLoc>>
    IN  IF tx.nonce # -1 /\ tx.nonce # c.nonce
        THEN [kind |-> IF tx.nonce > c.nonce THEN "NonceTooHigh" ELSE "NonceTooLow",
              state |-> << >>, slot |-> -1, reads |-> r0]
        ELSE IF c.balance < tx.value + Fee
        THEN [kind |-> "LackOfFundForMaxFee", state |-> << >>, slot |-> -1, reads |-> r0]
        ELSE CASE tx.data = "" ->
                    [kind |-> "Success",
                     state |-> (tx.caller :> Paid(tx, view))
                                @@ (tx.to :> [t EXCEPT !.balance = @ + tx.value]),
                     slot |-> -1, reads |-> r1]
               [] tx.data = "set" ->
                    [kind |-> "Success",
                     state |-> (tx.caller :> Paid(tx, view)) @@ (tx.to :> t),
                     slot |-> IF s = 1 THEN -1 ELSE 1, reads |-> r2]
               [] tx.data = "need" ->
                    IF s = 0
                    THEN [kind |-> "Revert",
                          state |-> (tx.caller :> Paid(tx, view)),
                          slot |-> -1, reads |-> r2]
                    ELSE [kind |-> "Success",
                          state |-> (tx.caller :> Paid(tx, view)) @@ (tx.to :> t),
                          slot |-> s - 1, reads |-> r2]
               [] OTHER -> \* "pay": the contract sends 1 to the payee when the slot is set
                    IF s >= 1 /\ t.balance >= 1
                    THEN [kind |-> "Success",
                          state |-> (tx.caller :> Paid(tx, view))
                                     @@ (tx.to :> [t EXCEPT !.balance = @ - 1])
                                     @@ (Payee :> [view.basic[Payee] EXCEPT !.balance = @ + 1]),
                          slot |-> -1, reads |-> Append(r2, Basic(Payee))]
                    ELSE [kind |-> "Success",
                          state |-> (tx.caller :> Paid(tx, view)) @@ (tx.to :> t),
                          slot |-> -1, reads |-> r2]


\* ---------------------------------------------------------------- state
VARIABLES
    txs,                        \* the block: Vec<TxEnv>
    pre,                        \* chain state before the block (Storage)
    workers,                    \* the worker threads execute_revm spawned
    phase,                      \* where execute_revm stands: "preprocess", "parallel", "sequential"
    \* Scheduler
    transactions_status,        \* TxIdx -> [incarnation, status]
    transactions_dependents,    \* TxIdx -> set of higher TxIdx waiting on it
    transactions_dependencies,  \* TxIdx -> set of lower TxIdx it waits on
    execution_idx,
    validation_idx,
    num_active_tasks,
    \* MvMemory
    data,                       \* location -> TxIdx -> MemoryEntry
    last_written_locations,     \* TxIdx -> locations of the last record
    last_read_set,              \* TxIdx -> location -> origins of the last record
    \* Vm
    retried_tx,                 \* TxIdx -> retries taken (tx 0 has no counter)
    \* execute_revm
    execution_error,            \* OnceLock<ExecutionError>: "none" or the error
    execution_results,          \* TxIdx -> NoResult or the stored result
    pc,                         \* worker -> where the thread stands
    task,                       \* worker -> its current Option<Task>
    consecutive_empty_tasks,    \* worker -> u8
    db,                         \* worker -> reads VmDb has served to the running EVM
    blocking,                   \* worker -> blocking_tx_idx of a ReadError in flight
    pending_error,              \* worker -> ExecutionError vm.execute returned ("none": none)
    flag,                       \* worker -> wrote_new_location / read_set_valid / aborted
    \* history, for the properties only
    aborted_versions,           \* versions that have entered Aborting
    refused_aborts,             \* versions on which a try_validation_abort returned false
    estimated,                  \* <<location, TxIdx>> entries that have been an Estimate
    last_executed,              \* TxIdx -> last incarnation that reached Executed (-1: none)
    to_validate                 \* executed transactions a scheduler call has left to validate

vars == <<txs, pre, workers, phase, transactions_status, transactions_dependents,
          transactions_dependencies, execution_idx, validation_idx, num_active_tasks,
          data, last_written_locations, last_read_set, retried_tx, execution_error,
          execution_results, pc, task, consecutive_empty_tasks, db, blocking,
          pending_error, flag, aborted_versions, refused_aborts, estimated, last_executed,
          to_validate>>

BlockSize == Len(txs)
TxIdxs    == 0 .. (BlockSize - 1)
Tx(k)     == txs[k + 1]

\* TxVersion / Task
Version(k, i)   == [tx_idx |-> k, tx_incarnation |-> i]
NoTask          == [t |-> "None"]
ExecutionTask(v)  == [t |-> "Execution", tx_idx |-> v.tx_idx, tx_incarnation |-> v.tx_incarnation]
ValidationTask(v) == [t |-> "Validation", tx_idx |-> v.tx_idx, tx_incarnation |-> v.tx_incarnation]

St(i, s) == [incarnation |-> i, status |-> s]

\* Mutex<Option<ResultAndState>> holding None
NoResult == [t |-> "None"]

\* ------------------------------------------------------- MvMemory (reads)
\* The highest index below `bound` that has an entry in the location map m (-1: none).
Below(m, bound) ==
    LET S == {i \in DOMAIN m : i < bound /\ m[i] # NoEntry}
    IN  IF S = {} THEN -1 ELSE CHOOSE i \in S : \A j \in S : j <= i

\* The keys of a location map, and the orders its iterator may take.
Keys(m) == {i \in DOMAIN m : m[i] # NoEntry}
IterOrders(m) ==
    {o \in [1 .. Cardinality(Keys(m)) -> Keys(m)] :
        \A a, b \in DOMAIN o : a # b => o[a] # o[b]}

\* The loop of MvMemory::read that lets the reader's own entry in.
RECURSIVE ReadLoopInclusive(_, _, _, _)
ReadLoopInclusive(m, tx_idx, order, result) ==
    IF order = << >> THEN result
    ELSE LET idx == Head(order)
         IN  ReadLoopInclusive(m, tx_idx, Tail(order),
                               IF idx <= tx_idx /\ (result = -1 \/ result < idx)
                               THEN idx ELSE result)

\* The loop of MvMemory::read over location_map.iter(): result is the index
\* of the entry kept so far (-1: None).
RECURSIVE ReadLoop(_, _, _, _)
ReadLoop(m, tx_idx, order, result) ==
    IF order = << >> THEN result
    ELSE LET idx == Head(order)
         IN  ReadLoop(m, tx_idx, Tail(order),
                      IF idx < tx_idx /\ (result = -1 \/ result < idx)
                      THEN idx ELSE result)

\* The final match of MvMemory::read on the entry the loop kept.
ReadMemoryResult(m, result) ==
    IF result = -1 THEN [r |-> "NotFound"]
    ELSE IF m[result] = Estimate THEN [r |-> "ReadError", blocking_tx_idx |-> result]
    ELSE [r |-> "Ok", version |-> OMv(result, m[result].inc), value |-> m[result].val]

\* MvMemory::read
MvRead(loc, tx_idx) ==
    ReadMemoryResult(data[loc],
                     ReadLoop(data[loc], tx_idx,
                              CHOOSE o \in IterOrders(data[loc]) : TRUE, -1))

\* MvMemory::validate_read_set.  The read-set holds, per location, the origins
\* VmDb pushed (ReadLocations); the origin this function compares with the
\* re-read is the one MvMemory::read reports, the highest entry below tx_idx,
\* which is the first origin of the list.
\* The comparison of validate_read_set that lets a blocked re-read pass.
OriginValidPassesBlocked(loc, tx_idx, prior_origin) ==
    LET r == MvRead(loc, tx_idx)
    IN  CASE r.r = "ReadError" -> TRUE
          [] r.r = "NotFound"  -> prior_origin = OStorage
          [] OTHER             -> prior_origin # OStorage /\ prior_origin = r.version

OriginValid(loc, tx_idx, prior_origin) ==
    LET r == MvRead(loc, tx_idx)
    IN  CASE r.r = "ReadError" -> FALSE
          [] r.r = "NotFound"  -> prior_origin = OStorage
          [] OTHER             -> prior_origin # OStorage /\ prior_origin = r.version

validate_read_set(tx_idx) ==
    \A loc \in DOMAIN last_read_set[tx_idx] :
        OriginValid(loc, tx_idx, Head(last_read_set[tx_idx][loc]))


\* ------------------------------------------------------------------ VmDb
is_maybe_lazy(tx) == tx.data = "" /\ tx.caller # tx.to
is_contract(addr) == pre.basic[addr].code # 0

\* VmDb::basic answers the recipient of a maybe-lazy transaction with a mock.
Mocked(tx, addr) == is_maybe_lazy(tx) /\ addr = tx.to /\ ~is_contract(addr)
MockInfo == Info(0, 1, 0)

Blocked(j) == [r |-> "Blocked", blocking_tx_idx |-> j]

\* The loop without the test that the entry met is the one right below.
RECURSIVE ScanBasicNoGapCheck(_, _, _, _, _, _, _)
ScanBasicNoGapCheck(m, tx_idx, pos, current_idx, balance_addition, origins, need) ==
    LET j == Below(m, pos)
    IN  IF j = -1
        THEN IF need /\ current_idx > 0
             THEN Blocked(tx_idx - 1)
             ELSE [r |-> "Fall", add |-> balance_addition, origins |-> origins]
        ELSE IF m[j] = Estimate
        THEN Blocked(IF need THEN tx_idx - 1 ELSE j)
        ELSE LET pushed == Append(origins, OMv(j, m[j].inc))
             IN  CASE m[j].val.t = "Basic" ->
                        [r |-> "Ok",
                         info |-> [m[j].val.info EXCEPT !.balance = @ + balance_addition],
                         origins |-> pushed]
                   [] m[j].val.t = "LazyBalanceAddition" ->
                        ScanBasicNoGapCheck(m, tx_idx, j, j, balance_addition + m[j].val.add,
                                            pushed, need)
                   [] OTHER -> [r |-> "InvalidMemoryLocationType"]

\* The loop of VmDb::basic over written_transactions.range(..tx_idx), from the
\* iterator position pos downward: current_idx, balance_addition and the
\* origins pushed so far; need is need_consecutive_idxs.
RECURSIVE ScanBasic(_, _, _, _, _, _, _)
ScanBasic(m, tx_idx, pos, current_idx, balance_addition, origins, need) ==
    LET j == Below(m, pos)
    IN  IF j = -1
        THEN IF need /\ current_idx > 0
             THEN Blocked(tx_idx - 1)
             ELSE [r |-> "Fall", add |-> balance_addition, origins |-> origins]
        ELSE IF m[j] = Estimate
        THEN Blocked(IF need THEN tx_idx - 1 ELSE j)
        ELSE IF need /\ j # current_idx - 1
        THEN Blocked(tx_idx - 1)
        ELSE LET pushed == Append(origins, OMv(j, m[j].inc))
             IN  CASE m[j].val.t = "Basic" ->
                        [r |-> "Ok",
                         info |-> [m[j].val.info EXCEPT !.balance = @ + balance_addition],
                         origins |-> pushed]
                   [] m[j].val.t = "LazyBalanceAddition" ->
                        ScanBasic(m, tx_idx, j, j, balance_addition + m[j].val.add, pushed, need)
                   [] OTHER -> [r |-> "InvalidMemoryLocationType"]

\* VmDb::basic giving the storage value without the additions met above it.
VmDbBasicStorageOnly(tx_idx, addr) ==
    LET scan == IF tx_idx > 0
                THEN ScanBasic(data[Basic(addr)], tx_idx, tx_idx, tx_idx, 0, << >>,
                               addr = Coinbase)
                ELSE [r |-> "Fall", add |-> 0, origins |-> << >>]
    IN  CASE scan.r = "Fall" ->
               [r |-> "Ok", val |-> pre.basic[addr],
                origins |-> Append(scan.origins, OStorage)]
          [] scan.r = "Ok" -> [r |-> "Ok", val |-> scan.info, origins |-> scan.origins]
          [] OTHER -> scan

\* VmDb::basic for an address that is not mocked: [r |-> "Ok", val, origins] or Blocked.
VmDbBasic(tx_idx, addr) ==
    LET scan == IF tx_idx > 0
                THEN ScanBasic(data[Basic(addr)], tx_idx, tx_idx, tx_idx, 0, << >>,
                               addr = Coinbase)
                ELSE [r |-> "Fall", add |-> 0, origins |-> << >>]
    IN  CASE scan.r = "Fall" ->
               [r |-> "Ok",
                val |-> [pre.basic[addr] EXCEPT !.balance = @ + scan.add],
                origins |-> Append(scan.origins, OStorage)]
          [] scan.r = "Ok" -> [r |-> "Ok", val |-> scan.info, origins |-> scan.origins]
          [] OTHER -> scan

\* VmDb::storage
VmDbStorage(tx_idx) ==
    LET j == IF tx_idx > 0 THEN Below(data[SlotLoc], tx_idx) ELSE -1
    IN  IF j = -1
        THEN [r |-> "Ok", val |-> pre.slot, origins |-> <<OStorage>>]
        ELSE IF data[SlotLoc][j] = Estimate
        THEN Blocked(j)
        ELSE IF data[SlotLoc][j].val.t = "Storage"
        THEN [r |-> "Ok", val |-> data[SlotLoc][j].val.v,
              origins |-> <<OMv(j, data[SlotLoc][j].inc)>>]
        ELSE [r |-> "InvalidMemoryLocationType"]

VmDbRead(tx_idx, loc) ==
    IF loc = SlotLoc THEN VmDbStorage(tx_idx) ELSE VmDbBasic(tx_idx, loc[2])

\* What the running EVM has been given so far: d is the sequence of reads
\* [loc, val, origins] VmDb served; what it has not read yet is a default.
ViewOf(tx, d) ==
    LET got(loc) == {i \in 1 .. Len(d) : d[i].loc = loc}
        val(loc) == d[CHOOSE i \in got(loc) : TRUE].val
    IN  [basic |-> [a \in Addrs |->
                     IF Mocked(tx, a) THEN MockInfo
                     ELSE IF got(Basic(a)) # {} THEN val(Basic(a))
                     ELSE Info(0, 0, 0)],
         slot  |-> IF got(SlotLoc) # {} THEN val(SlotLoc) ELSE 0]

IsRealRead(tx, loc) == loc = SlotLoc \/ ~Mocked(tx, loc[2])

\* The reads the EVM asks MvMemory or storage for, given what it has read.
RealReads(tx, d) ==
    LET all == Evm(tx, ViewOf(tx, d)).reads
    IN  SelectSeq(all, LAMBDA loc : IsRealRead(tx, loc))

\* ReadSet.locations and ReadSet.accounts of a finished execution
ReadLocations(d) == [loc \in {d[i].loc : i \in 1 .. Len(d)} |->
                        d[CHOOSE i \in 1 .. Len(d) : d[i].loc = loc].origins]
ReadAccounts(d)  == [a \in {d[i].loc[2] : i \in {n \in 1 .. Len(d) : d[n].loc # SlotLoc}} |->
                        d[CHOOSE i \in 1 .. Len(d) : d[i].loc = Basic(a)].val]


\* ------------------------------------------------------------ Vm::execute
\* Retries of a reverted or unfunded execution (the bound in `fetch_add(..) < 1`).
MaxRetries == 1

AddrOrder == <<"a", "b", "c", Coinbase, Contract, Payee>>

\* The write-set loop of Vm::execute over result_and_state.state: an account
\* that differs from what was read is written, lazily for the recipient of a
\* maybe-lazy transaction; then the changed storage slot.
AccountWrites(tx, res, accounts) ==
    LET touched == SelectSeq(AddrOrder, LAMBDA a : a \in DOMAIN res.state)
        changed == SelectSeq(touched,
                       LAMBDA a : ~(a \in DOMAIN accounts /\ accounts[a] = res.state[a]))
    IN  [i \in 1 .. Len(changed) |->
            IF is_maybe_lazy(tx) /\ changed[i] = tx.to /\ res.state[changed[i]].code = 0
            THEN <<Basic(changed[i]), VLazy(tx.value)>>
            ELSE <<Basic(changed[i]), VBasic(res.state[changed[i]])>>]

StorageWrites(res) ==
    IF res.slot # -1 THEN << <<SlotLoc, VStorage(res.slot)>> >> ELSE << >>

\* apply_rewards that pushes the reward without looking for an entry.
apply_rewards_always_pushes(write_set, amount) ==
    Append(write_set, <<Basic(Coinbase), VLazy(amount)>>)

\* Vm::apply_rewards
apply_rewards(write_set, amount) ==
    LET hits == {i \in 1 .. Len(write_set) : write_set[i][1] = Basic(Coinbase)}
    IN  IF hits = {}
        THEN Append(write_set, <<Basic(Coinbase), VLazy(amount)>>)
        ELSE LET i == CHOOSE h \in hits : \A g \in hits : h <= g
                 v == write_set[i][2]
             IN  [write_set EXCEPT ![i] =
                    <<Basic(Coinbase),
                      IF v.t = "Basic"
                      THEN VBasic([v.info EXCEPT !.balance = @ + amount])
                      ELSE VLazy(v.add + amount)>>]

WriteLocations(write_set) == {write_set[i][1] : i \in 1 .. Len(write_set)}

\* next_validation_idx that takes a write of the beneficiary for a write elsewhere.
NextValidationIdxBeneficiaryCounts(tx_idx, tx, d, write_set) ==
    LET only_read_from_and_to ==
            \A i \in 1 .. Len(d) : d[i].loc \in {Basic(tx.caller), Basic(tx.to)}
    IN  IF tx_idx = 0 THEN -1
        ELSE IF ~only_read_from_and_to THEN tx_idx
        ELSE IF \E l \in WriteLocations(write_set) :
                    l \notin {Basic(tx.caller), Basic(tx.to)}
        THEN tx_idx + 1
        ELSE -1

\* next_validation_idx of Vm::execute (-1 is None).
NextValidationIdx(tx_idx, tx, d, write_set) ==
    LET only_read_from_and_to ==
            \A i \in 1 .. Len(d) : d[i].loc \in {Basic(tx.caller), Basic(tx.to)}
    IN  IF tx_idx = 0 THEN -1
        ELSE IF ~only_read_from_and_to THEN tx_idx
        ELSE IF \E l \in WriteLocations(write_set) :
                    l \notin {Basic(tx.caller), Basic(tx.to), Basic(Coinbase)}
        THEN tx_idx + 1
        ELSE -1

\* Whether the retry counter lets this execution be retried; the counter is
\* bumped by every reverted or unfunded execution of a transaction above 0.
Retriable(tx_idx, kind) == kind \in {"Revert", "LackOfFundForMaxFee"} /\ tx_idx > 0
\* The retry test with a bound of two.
TakesRetryTwice(tx_idx, kind, retried) == Retriable(tx_idx, kind) /\ retried < MaxRetries + 1

TakesRetry(tx_idx, kind, retried) == Retriable(tx_idx, kind) /\ retried < MaxRetries

\* Vm::execute once the EVM has finished on the reads d.
VmExecute(tx_idx, d, retried) ==
    LET tx  == Tx(tx_idx)
        res == Evm(tx, ViewOf(tx, d))
        ws  == apply_rewards(AccountWrites(tx, res, ReadAccounts(d)) \o StorageWrites(res), Fee)
    IN  IF TakesRetry(tx_idx, res.kind, retried)
        THEN [r |-> "ReadError", blocking_tx_idx |-> tx_idx - 1]
        ELSE IF res.kind \in InvalidTransaction
        THEN [r |-> "ExecutionError", err |-> res.kind]
        ELSE [r |-> "Ok",
              result_and_state |-> [success |-> res.kind = "Success",
                                    state |-> res.state, slot |-> res.slot],
              read_set |-> ReadLocations(d),
              write_set |-> ws,
              next_validation_idx |-> NextValidationIdx(tx_idx, tx, d, ws)]

\* --------------------------------------------------- MvMemory (updates)
\* record that skips the removal of the locations the previous incarnation
\* wrote and this one did not.
RecordDataKeepsStale(version, write_set) ==
    LET k   == version.tx_idx
        new == WriteLocations(write_set)
        last(loc) == CHOOSE i \in 1 .. Len(write_set) :
                        /\ write_set[i][1] = loc
                        /\ \A j \in 1 .. Len(write_set) : write_set[j][1] = loc => j <= i
    IN  [loc \in Locs |->
            IF loc \in new
            THEN [data[loc] EXCEPT ![k] = Data(version.tx_incarnation, write_set[last(loc)][2])]
            ELSE data[loc]]

\* MvMemory::record: the new multi-version data, and wrote_new_location.
RecordData(version, write_set) ==
    LET k   == version.tx_idx
        new == WriteLocations(write_set)
        last(loc) == CHOOSE i \in 1 .. Len(write_set) :
                        /\ write_set[i][1] = loc
                        /\ \A j \in 1 .. Len(write_set) : write_set[j][1] = loc => j <= i
    IN  [loc \in Locs |->
            IF loc \in new
            THEN [data[loc] EXCEPT ![k] = Data(version.tx_incarnation, write_set[last(loc)][2])]
            ELSE IF loc \in last_written_locations[k]
            THEN [data[loc] EXCEPT ![k] = NoEntry]
            ELSE data[loc]]

\* record that never reports a new location.
WroteNewLocationNever(version, write_set) == FALSE

\* record that reports a new location whenever the write-set differs from the
\* locations of the previous record.
WroteNewLocationOnChange(version, write_set) ==
    WriteLocations(write_set) # last_written_locations[version.tx_idx]

WroteNewLocation(version, write_set) ==
    \E loc \in WriteLocations(write_set) : loc \notin last_written_locations[version.tx_idx]

\* convert_writes_to_estimates that marks the entries of the lower
\* transactions at those locations as well.
ConvertDataWholeLocation(tx_idx) ==
    [loc \in Locs |->
        IF loc \in last_written_locations[tx_idx]
        THEN [i \in DOMAIN data[loc] |->
                IF i <= tx_idx /\ data[loc][i] # NoEntry THEN Estimate ELSE data[loc][i]]
        ELSE data[loc]]

\* MvMemory::convert_writes_to_estimates
ConvertData(tx_idx) ==
    [loc \in Locs |->
        IF loc \in last_written_locations[tx_idx]
        THEN [data[loc] EXCEPT ![tx_idx] = Estimate]
        ELSE data[loc]]


\* ------------------------------------------------ preprocess_dependencies
\* register_dependency that leaves the dependent out of the dependency's list.
register_dependency_forgets_dependent(acc, tx_idx, dependency_idx) ==
    [acc EXCEPT !.status[tx_idx] = St(0, "Aborting"),
                !.dependencies[tx_idx] = @ \cup {dependency_idx}]

\* register_dependency with its two indexes exchanged in the lists.
register_dependency_swapped(acc, tx_idx, dependency_idx) ==
    [acc EXCEPT !.status[tx_idx] = St(0, "Aborting"),
                !.dependents[tx_idx] = @ \cup {dependency_idx},
                !.dependencies[dependency_idx] = @ \cup {tx_idx}]

\* register_dependency that leaves the dependent ReadyToExecute.
register_dependency_keeps_ready(acc, tx_idx, dependency_idx) ==
    [acc EXCEPT !.dependents[dependency_idx] = @ \cup {tx_idx},
                !.dependencies[tx_idx] = @ \cup {dependency_idx}]

\* register_dependency that leaves transactions_dependencies alone.
register_dependency_forgets_dependency(acc, tx_idx, dependency_idx) ==
    [acc EXCEPT !.status[tx_idx] = St(0, "Aborting"),
                !.dependents[dependency_idx] = @ \cup {tx_idx}]

\* register_dependency: the closure of preprocess_dependencies.
register_dependency(acc, tx_idx, dependency_idx) ==
    [acc EXCEPT !.status[tx_idx] = St(0, "Aborting"),
                !.dependents[dependency_idx] = @ \cup {tx_idx},
                !.dependencies[tx_idx] = @ \cup {dependency_idx}]

\* The iteration that files every recipient under its address, also that of a
\* transfer of nothing.
PreprocessStepAnyRecipient(acc, tx_idx, tx, block_size) ==
    LET start == IF acc.start = block_size /\ tx_idx > 0 /\ tx.data # ""
                 THEN tx_idx ELSE acc.start
        has_recipient == tx.value # 0
        a0 == [acc EXCEPT !.start = start]
        a1 == IF tx_idx = 0 THEN a0
              ELSE IF tx.caller = Coinbase \/ (has_recipient /\ tx.to = Coinbase)
              THEN register_dependency(a0, tx_idx, tx_idx - 1)
              ELSE LET s1 == IF a0.last[tx.caller] # -1
                             THEN register_dependency(a0, tx_idx, a0.last[tx.caller])
                             ELSE a0
                   IN  IF has_recipient /\ a0.last[tx.to] # -1
                       THEN register_dependency(s1, tx_idx, a0.last[tx.to])
                       ELSE s1
        count == Cardinality({k \in DOMAIN a1.dependencies : a1.dependencies[k] # {}})
        a2 == [a1 EXCEPT !.none = tx_idx > 0 /\ count * 10 > 9 * block_size]
    IN  [a2 EXCEPT !.last = [a \in Addrs |->
                                IF a = tx.caller \/ a = tx.to
                                THEN tx_idx ELSE @[a]]]

\* The iteration that takes the beneficiary branch for every recipient equal
\* to the beneficiary, also that of a transfer of nothing.
PreprocessStepBeneficiaryAnyValue(acc, tx_idx, tx, block_size) ==
    LET start == IF acc.start = block_size /\ tx_idx > 0 /\ tx.data # ""
                 THEN tx_idx ELSE acc.start
        has_recipient == tx.value # 0
        a0 == [acc EXCEPT !.start = start]
        a1 == IF tx_idx = 0 THEN a0
              ELSE IF tx.caller = Coinbase \/ tx.to = Coinbase
              THEN register_dependency(a0, tx_idx, tx_idx - 1)
              ELSE LET s1 == IF a0.last[tx.caller] # -1
                             THEN register_dependency(a0, tx_idx, a0.last[tx.caller])
                             ELSE a0
                   IN  IF has_recipient /\ a0.last[tx.to] # -1
                       THEN register_dependency(s1, tx_idx, a0.last[tx.to])
                       ELSE s1
        count == Cardinality({k \in DOMAIN a1.dependencies : a1.dependencies[k] # {}})
        a2 == [a1 EXCEPT !.none = tx_idx > 0 /\ count * 10 > 9 * block_size]
    IN  [a2 EXCEPT !.last = [a \in Addrs |->
                                IF a = tx.caller \/ (has_recipient /\ a = tx.to)
                                THEN tx_idx ELSE @[a]]]

\* The iteration that lets the first transaction set starting_validation_idx.
PreprocessStepFromFirst(acc, tx_idx, tx, block_size) ==
    LET start == IF acc.start = block_size /\ tx.data # ""
                 THEN tx_idx ELSE acc.start
        has_recipient == tx.value # 0
        a0 == [acc EXCEPT !.start = start]
        a1 == IF tx_idx = 0 THEN a0
              ELSE IF tx.caller = Coinbase \/ (has_recipient /\ tx.to = Coinbase)
              THEN register_dependency(a0, tx_idx, tx_idx - 1)
              ELSE LET s1 == IF a0.last[tx.caller] # -1
                             THEN register_dependency(a0, tx_idx, a0.last[tx.caller])
                             ELSE a0
                   IN  IF has_recipient /\ a0.last[tx.to] # -1
                       THEN register_dependency(s1, tx_idx, a0.last[tx.to])
                       ELSE s1
        count == Cardinality({k \in DOMAIN a1.dependencies : a1.dependencies[k] # {}})
        a2 == [a1 EXCEPT !.none = tx_idx > 0 /\ count * 10 > 9 * block_size]
    IN  [a2 EXCEPT !.last = [a \in Addrs |->
                                IF a = tx.caller \/ (has_recipient /\ a = tx.to)
                                THEN tx_idx ELSE @[a]]]

\* The iteration that falls back already at nine tenths.
PreprocessStepAtNineTenths(acc, tx_idx, tx, block_size) ==
    LET start == IF acc.start = block_size /\ tx_idx > 0 /\ tx.data # ""
                 THEN tx_idx ELSE acc.start
        has_recipient == tx.value # 0
        a0 == [acc EXCEPT !.start = start]
        a1 == IF tx_idx = 0 THEN a0
              ELSE IF tx.caller = Coinbase \/ (has_recipient /\ tx.to = Coinbase)
              THEN register_dependency(a0, tx_idx, tx_idx - 1)
              ELSE LET s1 == IF a0.last[tx.caller] # -1
                             THEN register_dependency(a0, tx_idx, a0.last[tx.caller])
                             ELSE a0
                   IN  IF has_recipient /\ a0.last[tx.to] # -1
                       THEN register_dependency(s1, tx_idx, a0.last[tx.to])
                       ELSE s1
        count == Cardinality({k \in DOMAIN a1.dependencies : a1.dependencies[k] # {}})
        a2 == [a1 EXCEPT !.none = tx_idx > 0 /\ count * 10 >= 9 * block_size]
    IN  [a2 EXCEPT !.last = [a \in Addrs |->
                                IF a = tx.caller \/ (has_recipient /\ a = tx.to)
                                THEN tx_idx ELSE @[a]]]

\* One iteration of the loop over the transactions; acc.last is the last
\* index of tx_idxes_by_address per address (-1: none), acc.none the early
\* `return None`.
PreprocessStep(acc, tx_idx, tx, block_size) ==
    LET start == IF acc.start = block_size /\ tx_idx > 0 /\ tx.data # ""
                 THEN tx_idx ELSE acc.start
        has_recipient == tx.value # 0
        a0 == [acc EXCEPT !.start = start]
        a1 == IF tx_idx = 0 THEN a0
              ELSE IF tx.caller = Coinbase \/ (has_recipient /\ tx.to = Coinbase)
              THEN register_dependency(a0, tx_idx, tx_idx - 1)
              ELSE LET s1 == IF a0.last[tx.caller] # -1
                             THEN register_dependency(a0, tx_idx, a0.last[tx.caller])
                             ELSE a0
                   IN  IF has_recipient /\ a0.last[tx.to] # -1
                       THEN register_dependency(s1, tx_idx, a0.last[tx.to])
                       ELSE s1
        count == Cardinality({k \in DOMAIN a1.dependencies : a1.dependencies[k] # {}})
        a2 == [a1 EXCEPT !.none = tx_idx > 0 /\ count * 10 > 9 * block_size]
    IN  [a2 EXCEPT !.last = [a \in Addrs |->
                                IF a = tx.caller \/ (has_recipient /\ a = tx.to)
                                THEN tx_idx ELSE @[a]]]

RECURSIVE PreprocessFrom(_, _, _)
PreprocessFrom(acc, tx_idx, block) ==
    IF tx_idx >= Len(block) \/ acc.none THEN acc
    ELSE PreprocessFrom(PreprocessStep(acc, tx_idx, block[tx_idx + 1], Len(block)),
                        tx_idx + 1, block)

\* preprocess_dependencies: what Scheduler::new is given, or none = TRUE for
\* the fall-back to sequential execution.
preprocess_dependencies(block) ==
    PreprocessFrom([status       |-> [k \in 0 .. Len(block) - 1 |-> St(0, "ReadyToExecute")],
                    dependents   |-> [k \in 0 .. Len(block) - 1 |-> {}],
                    dependencies |-> [k \in 0 .. Len(block) - 1 |-> {}],
                    last         |-> [a \in Addrs |-> -1],
                    start        |-> Len(block),
                    none         |-> FALSE],
                   0, block)

\* max_concurrency_level of preprocess_dependencies
max_concurrency_level(block_size) == Max(block_size \div 2, 2)

\* ------------------------------------------------------------------ Init
Init ==
    \E sc \in Scenarios, concurrency_level \in 1 .. MaxConcurrency :
        LET p  == preprocess_dependencies(sc.txs)
            n  == Len(sc.txs)
            ws == 1 .. Min(concurrency_level, max_concurrency_level(n))
        IN  /\ ~p.none
            /\ txs = sc.txs
            /\ pre = sc.pre
            /\ workers = ws
            /\ phase = "parallel"
            /\ transactions_status = p.status
            /\ transactions_dependents = p.dependents
            /\ transactions_dependencies = p.dependencies
            /\ execution_idx = 0
            /\ validation_idx = p.start
            /\ num_active_tasks = 0
            /\ data = [loc \in Locs |-> [k \in 0 .. n - 1 |-> NoEntry]]
            /\ last_written_locations = [k \in 0 .. n - 1 |-> {}]
            /\ last_read_set = [k \in 0 .. n - 1 |-> << >>]
            /\ retried_tx = [k \in 0 .. n - 1 |-> 0]
            /\ execution_error = "none"
            /\ execution_results = [k \in 0 .. n - 1 |-> NoResult]
            /\ pc = [w \in ws |-> "loop"]
            /\ task = [w \in ws |-> NoTask]
            /\ consecutive_empty_tasks = [w \in ws |-> 0]
            /\ db = [w \in ws |-> << >>]
            /\ blocking = [w \in ws |-> -1]
            /\ pending_error = [w \in ws |-> "none"]
            /\ flag = [w \in ws |-> FALSE]
            /\ aborted_versions = {Version(k, 0) : k \in {j \in 0 .. n - 1 : p.status[j].status = "Aborting"}}
            /\ refused_aborts = {}
            /\ estimated = {}
            /\ last_executed = [k \in 0 .. n - 1 |-> -1]
            /\ to_validate = {}


\* ------------------------------------------------------------- Scheduler
\* The scheduler of section 4.2 of the specification.  Each operation below is
\* one atomic step on the scheduler's state.

\* Termination: done()
done ==
    /\ execution_idx >= BlockSize
    /\ validation_idx >= BlockSize
    /\ num_active_tasks = 0

Status(k) == transactions_status[k].status
Inc(k)    == transactions_status[k].incarnation

\* The first index from idx on whose transaction is in one of the statuses
\* (BlockSize: none): the cursor skips transactions not in that state.
FirstFrom(idx, statuses) ==
    LET S == {k \in TxIdxs : k >= idx /\ Status(k) \in statuses}
    IN  IF S = {} THEN BlockSize ELSE CHOOSE k \in S : \A j \in S : k <= j

\* next_task: which kind of task it tries to claim.
TriesValidation == validation_idx < execution_idx

\* next_task() -> Execution(Version) | Validation(Version) | None, with the
\* scheduler's next state.
next_task ==
    IF TriesValidation
    THEN LET k == FirstFrom(validation_idx, {"Executed", "Validated"})
         IN  [task   |-> IF k < BlockSize THEN ValidationTask(Version(k, Inc(k))) ELSE NoTask,
              status |-> transactions_status,
              execution_idx  |-> execution_idx,
              validation_idx |-> IF k < BlockSize THEN k + 1 ELSE Max(validation_idx, BlockSize),
              num_active_tasks |-> IF k < BlockSize THEN num_active_tasks + 1
                                   ELSE num_active_tasks]
    ELSE LET k == FirstFrom(execution_idx, {"ReadyToExecute"})
         IN  [task   |-> IF k < BlockSize THEN ExecutionTask(Version(k, Inc(k))) ELSE NoTask,
              status |-> IF k < BlockSize
                         THEN [transactions_status EXCEPT ![k] = St(Inc(k), "Executing")]
                         ELSE transactions_status,
              execution_idx  |-> IF k < BlockSize THEN k + 1 ELSE Max(execution_idx, BlockSize),
              validation_idx |-> validation_idx,
              num_active_tasks |-> IF k < BlockSize THEN num_active_tasks + 1
                                   ELSE num_active_tasks]

\* The dependents of tx_idx that wait on nothing else once tx_idx has finished.
Resumed(tx_idx) ==
    {d \in transactions_dependents[tx_idx] : transactions_dependencies[d] \subseteq {tx_idx}}

\* An abort that is followed by the same incarnation.
SameIncarnation(i) == i

\* The incarnation that follows an aborted one.
NextIncarnation(i) == i + 1

\* Aborting(i) -> ReadyToExecute(i + 1)
set_ready_status(status, k) ==
    [status EXCEPT ![k] = St(NextIncarnation(status[k].incarnation), "ReadyToExecute")]

RECURSIVE SetReadyAll(_, _)
SetReadyAll(status, S) ==
    IF S = {} THEN status
    ELSE LET k == CHOOSE x \in S : TRUE
         IN  SetReadyAll(set_ready_status(status, k), S \ {k})

\* finish_execution that counts the task as finished also when it hands it back.
ActiveAfterExecutionAlwaysLess(immediate) == num_active_tasks - 1

\* num_active_tasks after finish_execution: the task stays active when it is
\* handed back as a validation task.
ActiveAfterExecution(immediate) ==
    IF immediate THEN num_active_tasks ELSE num_active_tasks - 1

\* finish_execution(Version, wrote_new_location): Executing(i) -> Executed(i),
\* the dependents are released, validation_idx is lowered to tx_idx + 1 after a
\* write to a new location; the transaction itself is handed back for
\* validation when the validation cursor is already past it.
finish_execution(version, wrote_new_location) ==
    LET k  == version.tx_idx
        rs == Resumed(k)
        s1 == [transactions_status EXCEPT ![k] = St(version.tx_incarnation, "Executed")]
        immediate == validation_idx > k
    IN  [task   |-> IF immediate THEN ValidationTask(version) ELSE NoTask,
         status |-> SetReadyAll(s1, rs),
         dependents   |-> [transactions_dependents EXCEPT ![k] = {}],
         dependencies |-> [d \in TxIdxs |-> transactions_dependencies[d] \ {k}],
         execution_idx  |-> IF rs = {} THEN execution_idx
                            ELSE Min(execution_idx, CHOOSE d \in rs : \A e \in rs : d <= e),
         validation_idx |-> IF wrote_new_location THEN Min(validation_idx, k + 1)
                            ELSE validation_idx,
         num_active_tasks |-> ActiveAfterExecution(immediate)]

\* try_validation_abort that does not compare the incarnation.
try_validation_abort_any_incarnation(version) ==
    Status(version.tx_idx) \in {"Executed", "Validated"}

\* try_validation_abort(Version) -> bool
try_validation_abort(version) ==
    /\ Status(version.tx_idx) \in {"Executed", "Validated"}
    /\ Inc(version.tx_idx) = version.tx_incarnation

\* finish_validation(Version, aborted).  After an abort the transaction is
\* ready again in its next incarnation and both cursors are lowered; the
\* caller is either handed that incarnation at once (immediate, the
\* execution-after-abort task of section 4.4) or finds it through next_task.
finish_validation(version, aborted, immediate) ==
    LET k == version.tx_idx
        i == version.tx_incarnation
    IN  IF aborted
        THEN [task   |-> IF immediate THEN ExecutionTask(Version(k, NextIncarnation(i)))
                         ELSE NoTask,
              status |-> [transactions_status EXCEPT
                            ![k] = St(NextIncarnation(i),
                                      IF immediate THEN "Executing" ELSE "ReadyToExecute")],
              execution_idx  |-> Min(execution_idx, k),
              validation_idx |-> Min(validation_idx, k + 1),
              num_active_tasks |-> IF immediate THEN num_active_tasks
                                   ELSE num_active_tasks - 1]
        ELSE [task   |-> NoTask,
              status |-> IF transactions_status[k] = St(i, "Executed")
                         THEN [transactions_status EXCEPT ![k] = St(i, "Validated")]
                         ELSE transactions_status,
              execution_idx  |-> execution_idx,
              validation_idx |-> validation_idx,
              num_active_tasks |-> num_active_tasks - 1]

\* The transactions above tx_idx that are executed: the ones a lowered
\* validation_idx sends through validation again.
ExecutedAbove(tx_idx) ==
    {m \in TxIdxs : m > tx_idx /\ Status(m) \in {"Executed", "Validated"}}

\* add_dependency(tx_idx, blocking_idx) -> bool: false when the blocker has
\* already finished.
add_dependency(tx_idx, blocking_idx) ==
    Status(blocking_idx) \notin {"Executed", "Validated"}


\* -------------------------------------------------- execute_revm: workers
sched_vars  == <<transactions_status, transactions_dependents, transactions_dependencies,
                 execution_idx, validation_idx, num_active_tasks>>
mv_vars     == <<data, last_written_locations, last_read_set>>
block_vars  == <<txs, pre, workers, phase>>
hist_vars   == <<aborted_versions, refused_aborts, estimated, last_executed, to_validate>>

TaskVersion(w) == Version(task[w].tx_idx, task[w].tx_incarnation)

\* The head of the worker loop: `while !scheduler.done()` and the check of
\* execution_error.
Runs(w) == pc[w] = "loop" /\ ~done /\ execution_error = "none"

\* The tail of the loop body: the count of consecutive empty tasks and the
\* early exit at 3.
EmptyTasksExit == 3

\* The loop tail with a count that is never reset.
LoopTailNeverResets(w, new_task) ==
    LET n == IF new_task = NoTask THEN consecutive_empty_tasks[w] + 1
             ELSE consecutive_empty_tasks[w]
    IN  /\ task' = [task EXCEPT ![w] = new_task]
        /\ consecutive_empty_tasks' = [consecutive_empty_tasks EXCEPT ![w] = n]
        /\ pc' = [pc EXCEPT ![w] = IF n = EmptyTasksExit THEN "exited" ELSE "loop"]

LoopTail(w, new_task) ==
    LET n == IF new_task = NoTask THEN consecutive_empty_tasks[w] + 1 ELSE 0
    IN  /\ task' = [task EXCEPT ![w] = new_task]
        /\ consecutive_empty_tasks' = [consecutive_empty_tasks EXCEPT ![w] = n]
        /\ pc' = [pc EXCEPT ![w] = IF n = EmptyTasksExit THEN "exited" ELSE "loop"]

\* The loop ends: the scheduler is done, or an execution error is recorded.
LoopExit(w) ==
    /\ pc[w] = "loop"
    /\ done \/ execution_error # "none"
    /\ pc' = [pc EXCEPT ![w] = "exited"]
    /\ UNCHANGED <<block_vars, sched_vars, mv_vars, retried_tx, execution_error,
                   execution_results, task, consecutive_empty_tasks, db, blocking, pending_error, flag,
                   hist_vars>>

\* A call of next_task that does not count the task it hands out.
NextTaskUncounted(w) ==
    /\ Runs(w)
    /\ task[w] = NoTask
    /\ \E r \in {next_task} :
           /\ transactions_status' = r.status
           /\ execution_idx' = r.execution_idx
           /\ validation_idx' = r.validation_idx
           /\ num_active_tasks' = num_active_tasks
           /\ LoopTail(w, r.task)
    /\ UNCHANGED <<block_vars, transactions_dependents, transactions_dependencies, mv_vars,
                   retried_tx, execution_error, execution_results, db, blocking, pending_error, flag,
                   hist_vars>>

\* `None => scheduler.next_task()`
NextTask(w) ==
    /\ Runs(w)
    /\ task[w] = NoTask
    /\ \E r \in {next_task} :
           /\ transactions_status' = r.status
           /\ execution_idx' = r.execution_idx
           /\ validation_idx' = r.validation_idx
           /\ num_active_tasks' = r.num_active_tasks
           /\ LoopTail(w, r.task)
    /\ UNCHANGED <<block_vars, transactions_dependents, transactions_dependencies, mv_vars,
                   retried_tx, execution_error, execution_results, db, blocking, pending_error, flag,
                   hist_vars>>

\* try_execute, the ExecutionError arm: execution_error.set(err).unwrap().
\* set fails on a slot that is already full, and unwrap then panics.
SetExecutionError(w) ==
    /\ pc[w] = "execution_error"
    /\ IF execution_error = "none"
       THEN /\ execution_error' = pending_error[w]
            /\ LoopTail(w, NoTask)
       ELSE /\ pc' = [pc EXCEPT ![w] = "panicked"]
            /\ UNCHANGED <<execution_error, task, consecutive_empty_tasks>>
    /\ pending_error' = [pending_error EXCEPT ![w] = "none"]
    /\ UNCHANGED <<block_vars, sched_vars, mv_vars, retried_tx, execution_results, db,
                   blocking, flag, hist_vars>>

\* vm.execute(tx_idx): the EVM's next read through VmDb.  A blocked read ends
\* the execution with ReadError; after the last read the EVM finishes and
\* Vm::execute classifies the outcome.
ExecuteRead(w) ==
    /\ \/ Runs(w) /\ task[w].t = "Execution"
       \/ pc[w] = "execute"
    /\ \E k \in {task[w].tx_idx} :
       \E d \in {IF pc[w] = "loop" THEN << >> ELSE db[w]} :
       \E r \in {VmDbRead(k, RealReads(Tx(k), d)[Len(d) + 1])} :
          CASE r.r = "Blocked" ->
                 /\ pc' = [pc EXCEPT ![w] = "add_dependency"]
                 /\ blocking' = [blocking EXCEPT ![w] = r.blocking_tx_idx]
                 /\ db' = [db EXCEPT ![w] = << >>]
                 /\ UNCHANGED <<retried_tx, execution_error, task, consecutive_empty_tasks,
                                pending_error>>
            [] r.r = "InvalidMemoryLocationType" ->
                 /\ pc' = [pc EXCEPT ![w] = "execution_error"]
                 /\ pending_error' = [pending_error EXCEPT ![w] = r.r]
                 /\ db' = [db EXCEPT ![w] = << >>]
                 /\ UNCHANGED <<retried_tx, execution_error, task, consecutive_empty_tasks,
                                blocking>>
            [] OTHER ->
                 \E d2 \in {Append(d, [loc |-> RealReads(Tx(k), d)[Len(d) + 1],
                                        val |-> r.val, origins |-> r.origins])} :
                    IF Len(RealReads(Tx(k), d2)) > Len(d2)
                    THEN /\ pc' = [pc EXCEPT ![w] = "execute"]
                         /\ db' = [db EXCEPT ![w] = d2]
                         /\ UNCHANGED <<retried_tx, execution_error, task,
                                        consecutive_empty_tasks, blocking, pending_error>>
                    ELSE \E x \in {VmExecute(k, d2, retried_tx[k])} :
                         /\ retried_tx' =
                               IF Retriable(k, Evm(Tx(k), ViewOf(Tx(k), d2)).kind)
                               THEN [retried_tx EXCEPT ![k] = (@ + 1) % 256]
                               ELSE retried_tx
                         /\ CASE x.r = "ReadError" ->
                                   /\ pc' = [pc EXCEPT ![w] = "add_dependency"]
                                   /\ blocking' = [blocking EXCEPT ![w] = x.blocking_tx_idx]
                                   /\ db' = [db EXCEPT ![w] = << >>]
                                   /\ UNCHANGED <<execution_error, task,
                                                  consecutive_empty_tasks, pending_error>>
                              [] x.r = "ExecutionError" ->
                                   /\ pc' = [pc EXCEPT ![w] = "execution_error"]
                                   /\ pending_error' = [pending_error EXCEPT ![w] = x.err]
                                   /\ db' = [db EXCEPT ![w] = << >>]
                                   /\ UNCHANGED <<execution_error, task,
                                                  consecutive_empty_tasks, blocking>>
                              [] OTHER ->
                                   /\ pc' = [pc EXCEPT ![w] = "record"]
                                   /\ db' = [db EXCEPT ![w] = d2]
                                   /\ UNCHANGED <<execution_error, task,
                                                  consecutive_empty_tasks, blocking, pending_error>>
    /\ UNCHANGED <<block_vars, sched_vars, mv_vars, execution_results, flag, hist_vars>>

\* The ReadError arm that gives the task up when add_dependency returns false.
AddDependencyGivesUp(w) ==
    /\ pc[w] = "add_dependency"
    /\ LET k == task[w].tx_idx
           b == blocking[w]
       IN  IF add_dependency(k, b)
           THEN /\ transactions_status' =
                      [transactions_status EXCEPT ![k] = St(Inc(k), "Aborting")]
                /\ transactions_dependents' =
                      [transactions_dependents EXCEPT ![b] = @ \cup {k}]
                /\ transactions_dependencies' =
                      [transactions_dependencies EXCEPT ![k] = @ \cup {b}]
                /\ num_active_tasks' = num_active_tasks - 1
                /\ aborted_versions' = aborted_versions \cup {Version(k, Inc(k))}
                /\ LoopTail(w, NoTask)
           ELSE /\ LoopTail(w, NoTask)
                /\ UNCHANGED <<transactions_status, transactions_dependents,
                               transactions_dependencies, num_active_tasks,
                               aborted_versions>>
    /\ blocking' = [blocking EXCEPT ![w] = -1]
    /\ UNCHANGED <<block_vars, execution_idx, validation_idx, mv_vars, retried_tx,
                   execution_error, execution_results, db, pending_error, flag, refused_aborts,
                   estimated, last_executed, to_validate>>

\* The ReadError arm that aborts the transaction without registering it with
\* its blocker.
AddDependencyNotRegistered(w) ==
    /\ pc[w] = "add_dependency"
    /\ LET k == task[w].tx_idx
           b == blocking[w]
       IN  IF add_dependency(k, b)
           THEN /\ transactions_status' =
                      [transactions_status EXCEPT ![k] = St(Inc(k), "Aborting")]
                /\ UNCHANGED <<transactions_dependents, transactions_dependencies>>
                /\ num_active_tasks' = num_active_tasks - 1
                /\ aborted_versions' = aborted_versions \cup {Version(k, Inc(k))}
                /\ LoopTail(w, NoTask)
           ELSE /\ pc' = [pc EXCEPT ![w] = "execute"]
                /\ UNCHANGED <<task, consecutive_empty_tasks>>
                /\ UNCHANGED <<transactions_status, transactions_dependents,
                               transactions_dependencies, num_active_tasks,
                               aborted_versions>>
    /\ blocking' = [blocking EXCEPT ![w] = -1]
    /\ UNCHANGED <<block_vars, execution_idx, validation_idx, mv_vars, retried_tx,
                   execution_error, execution_results, db, pending_error, flag, refused_aborts,
                   estimated, last_executed, to_validate>>

\* try_execute taking the stored result of a blocked transaction away.
AddDependencyTakesResult(w) ==
    /\ pc[w] = "add_dependency"
    /\ LET k == task[w].tx_idx
           b == blocking[w]
       IN  IF add_dependency(k, b)
           THEN /\ transactions_status' =
                      [transactions_status EXCEPT ![k] = St(Inc(k), "Aborting")]
                /\ transactions_dependents' =
                      [transactions_dependents EXCEPT ![b] = @ \cup {k}]
                /\ transactions_dependencies' =
                      [transactions_dependencies EXCEPT ![k] = @ \cup {b}]
                /\ num_active_tasks' = num_active_tasks - 1
                /\ aborted_versions' = aborted_versions \cup {Version(k, Inc(k))}
                /\ execution_results' = [execution_results EXCEPT ![k] = NoResult]
                /\ LoopTail(w, NoTask)
           ELSE /\ pc' = [pc EXCEPT ![w] = "execute"]
                /\ UNCHANGED <<transactions_status, transactions_dependents,
                               transactions_dependencies, num_active_tasks,
                               aborted_versions, task, consecutive_empty_tasks,
                               execution_results>>
    /\ blocking' = [blocking EXCEPT ![w] = -1]
    /\ UNCHANGED <<block_vars, execution_idx, validation_idx, mv_vars, retried_tx,
                   execution_error, db, pending_error, flag, refused_aborts,
                   estimated, last_executed, to_validate>>

\* try_execute retrying the execution whatever add_dependency returned.
AddDependencyRetriesAlways(w) ==
    /\ pc[w] = "add_dependency"
    /\ LET k == task[w].tx_idx
           b == blocking[w]
       IN  IF add_dependency(k, b)
           THEN /\ transactions_status' =
                      [transactions_status EXCEPT ![k] = St(Inc(k), "Aborting")]
                /\ transactions_dependents' =
                      [transactions_dependents EXCEPT ![b] = @ \cup {k}]
                /\ transactions_dependencies' =
                      [transactions_dependencies EXCEPT ![k] = @ \cup {b}]
                /\ num_active_tasks' = num_active_tasks - 1
                /\ aborted_versions' = aborted_versions \cup {Version(k, Inc(k))}
                /\ pc' = [pc EXCEPT ![w] = "execute"]
                /\ UNCHANGED <<task, consecutive_empty_tasks>>
           ELSE /\ pc' = [pc EXCEPT ![w] = "execute"]
                /\ UNCHANGED <<transactions_status, transactions_dependents,
                               transactions_dependencies, num_active_tasks,
                               aborted_versions, task, consecutive_empty_tasks>>
    /\ blocking' = [blocking EXCEPT ![w] = -1]
    /\ UNCHANGED <<block_vars, execution_idx, validation_idx, mv_vars, retried_tx,
                   execution_error, execution_results, db, pending_error, flag, refused_aborts,
                   estimated, last_executed, to_validate>>

\* try_execute, the ReadError arm: scheduler.add_dependency; on false the
\* execution is retried at once.
AddDependency(w) ==
    /\ pc[w] = "add_dependency"
    /\ LET k == task[w].tx_idx
           b == blocking[w]
       IN  IF add_dependency(k, b)
           THEN /\ transactions_status' =
                      [transactions_status EXCEPT ![k] = St(Inc(k), "Aborting")]
                /\ transactions_dependents' =
                      [transactions_dependents EXCEPT ![b] = @ \cup {k}]
                /\ transactions_dependencies' =
                      [transactions_dependencies EXCEPT ![k] = @ \cup {b}]
                /\ num_active_tasks' = num_active_tasks - 1
                /\ aborted_versions' = aborted_versions \cup {Version(k, Inc(k))}
                /\ LoopTail(w, NoTask)
           ELSE /\ pc' = [pc EXCEPT ![w] = "execute"]
                /\ UNCHANGED <<transactions_status, transactions_dependents,
                               transactions_dependencies, num_active_tasks,
                               aborted_versions, task, consecutive_empty_tasks>>
    /\ blocking' = [blocking EXCEPT ![w] = -1]
    /\ UNCHANGED <<block_vars, execution_idx, validation_idx, mv_vars, retried_tx,
                   execution_error, execution_results, db, pending_error, flag, refused_aborts,
                   estimated, last_executed, to_validate>>

\* try_execute, the Ok arm without the store into execution_results.
RecordWithoutResult(w) ==
    /\ pc[w] = "record"
    /\ \E k \in {task[w].tx_idx} :
       \E x \in {VmExecute(k, db[w], MaxRetries)} :
           /\ last_read_set' = [last_read_set EXCEPT ![k] = x.read_set]
           /\ data' = RecordData(TaskVersion(w), x.write_set)
           /\ last_written_locations' =
                 [last_written_locations EXCEPT ![k] = WriteLocations(x.write_set)]
           /\ flag' = [flag EXCEPT ![w] = WroteNewLocation(TaskVersion(w), x.write_set)]
    /\ pc' = [pc EXCEPT ![w] = "finish_execution"]
    /\ db' = [db EXCEPT ![w] = << >>]
    /\ UNCHANGED <<block_vars, sched_vars, retried_tx, execution_error, execution_results,
                   task, consecutive_empty_tasks, blocking, pending_error, hist_vars>>

\* try_execute, the Ok arm: the result is stored and mv_memory.record applies
\* the read and write sets.
Record(w) ==
    /\ pc[w] = "record"
    /\ \E k \in {task[w].tx_idx} :
       \E x \in {VmExecute(k, db[w], MaxRetries)} :
           /\ execution_results' = [execution_results EXCEPT ![k] = x.result_and_state]
           /\ last_read_set' = [last_read_set EXCEPT ![k] = x.read_set]
           /\ data' = RecordData(TaskVersion(w), x.write_set)
           /\ last_written_locations' =
                 [last_written_locations EXCEPT ![k] = WriteLocations(x.write_set)]
           /\ flag' = [flag EXCEPT ![w] = WroteNewLocation(TaskVersion(w), x.write_set)]
    /\ pc' = [pc EXCEPT ![w] = "finish_execution"]
    /\ db' = [db EXCEPT ![w] = << >>]
    /\ UNCHANGED <<block_vars, sched_vars, retried_tx, execution_error, task,
                   consecutive_empty_tasks, blocking, pending_error, hist_vars>>

\* The Ok arm that never reports a new location to finish_execution.
FinishExecutionNoNewLocation(w) ==
    /\ pc[w] = "finish_execution"
    /\ \E r \in {finish_execution(TaskVersion(w), FALSE)} :
           /\ transactions_status' = r.status
           /\ transactions_dependents' = r.dependents
           /\ transactions_dependencies' = r.dependencies
           /\ execution_idx' = r.execution_idx
           /\ validation_idx' = r.validation_idx
           /\ num_active_tasks' = r.num_active_tasks
           /\ LoopTail(w, r.task)
    /\ last_executed' = [last_executed EXCEPT ![task[w].tx_idx] = task[w].tx_incarnation]
    /\ to_validate' = to_validate \cup {task[w].tx_idx} \cup
                         (IF flag[w] THEN ExecutedAbove(task[w].tx_idx) ELSE {})
    /\ flag' = [flag EXCEPT ![w] = FALSE]
    /\ UNCHANGED <<block_vars, mv_vars, retried_tx, execution_error, execution_results,
                   db, blocking, pending_error, aborted_versions, refused_aborts, estimated>>

\* try_execute, the Ok arm: scheduler.finish_execution
FinishExecution(w) ==
    /\ pc[w] = "finish_execution"
    /\ \E r \in {finish_execution(TaskVersion(w), flag[w])} :
           /\ transactions_status' = r.status
           /\ transactions_dependents' = r.dependents
           /\ transactions_dependencies' = r.dependencies
           /\ execution_idx' = r.execution_idx
           /\ validation_idx' = r.validation_idx
           /\ num_active_tasks' = r.num_active_tasks
           /\ LoopTail(w, r.task)
    /\ last_executed' = [last_executed EXCEPT ![task[w].tx_idx] = task[w].tx_incarnation]
    /\ to_validate' = to_validate \cup {task[w].tx_idx} \cup
                         (IF flag[w] THEN ExecutedAbove(task[w].tx_idx) ELSE {})
    /\ flag' = [flag EXCEPT ![w] = FALSE]
    /\ UNCHANGED <<block_vars, mv_vars, retried_tx, execution_error, execution_results,
                   db, blocking, pending_error, aborted_versions, refused_aborts, estimated>>

\* try_validate: mv_memory.validate_read_set
Validate(w) ==
    /\ Runs(w)
    /\ task[w].t = "Validation"
    /\ pc' = [pc EXCEPT ![w] = IF validate_read_set(task[w].tx_idx)
                               THEN "finish_validation" ELSE "try_validation_abort"]
    /\ to_validate' = IF Inc(task[w].tx_idx) = task[w].tx_incarnation
                      THEN to_validate \ {task[w].tx_idx} ELSE to_validate
    /\ UNCHANGED <<block_vars, sched_vars, mv_vars, retried_tx, execution_error,
                   execution_results, task, consecutive_empty_tasks, db, blocking, pending_error, flag,
                   aborted_versions, refused_aborts, estimated, last_executed>>

\* try_validate with `aborted = !read_set_valid`, the scheduler not asked.
TryValidationAbortUnasked(w) ==
    /\ pc[w] = "try_validation_abort"
    /\ flag' = [flag EXCEPT ![w] = TRUE]
    /\ pc' = [pc EXCEPT ![w] = "convert_writes_to_estimates"]
    /\ aborted_versions' = aborted_versions \cup {TaskVersion(w)}
    /\ to_validate' = to_validate \ {task[w].tx_idx}
    /\ UNCHANGED <<block_vars, sched_vars, mv_vars, retried_tx,
                   execution_error, execution_results, task, consecutive_empty_tasks, db,
                   blocking, pending_error, refused_aborts, estimated, last_executed>>

\* try_validate: `!read_set_valid && scheduler.try_validation_abort(tx_version)`
TryValidationAbort(w) ==
    /\ pc[w] = "try_validation_abort"
    /\ LET v == TaskVersion(w)
       IN  IF try_validation_abort(v)
           THEN /\ transactions_status' =
                      [transactions_status EXCEPT
                         ![v.tx_idx] = St(v.tx_incarnation, "Aborting")]
                /\ aborted_versions' = aborted_versions \cup {v}
                /\ to_validate' = to_validate \ {v.tx_idx}
                /\ flag' = [flag EXCEPT ![w] = TRUE]
                /\ pc' = [pc EXCEPT ![w] = "convert_writes_to_estimates"]
                /\ UNCHANGED refused_aborts
           ELSE /\ pc' = [pc EXCEPT ![w] = "finish_validation"]
                /\ refused_aborts' = refused_aborts \cup {v}
                /\ UNCHANGED <<transactions_status, aborted_versions, flag, to_validate>>
    /\ UNCHANGED <<block_vars, transactions_dependents, transactions_dependencies,
                   execution_idx, validation_idx, num_active_tasks, mv_vars, retried_tx,
                   execution_error, execution_results, task, consecutive_empty_tasks, db,
                   blocking, pending_error, estimated, last_executed>>

\* try_validate: `if aborted { mv_memory.convert_writes_to_estimates(tx_idx) }`
ConvertWritesToEstimates(w) ==
    /\ pc[w] = "convert_writes_to_estimates"
    /\ data' = ConvertData(task[w].tx_idx)
    /\ estimated' = estimated \cup
                      {<<loc, task[w].tx_idx>> : loc \in last_written_locations[task[w].tx_idx]}
    /\ pc' = [pc EXCEPT ![w] = "finish_validation"]
    /\ UNCHANGED <<block_vars, sched_vars, last_written_locations, last_read_set,
                   retried_tx, execution_error, execution_results, task,
                   consecutive_empty_tasks, db, blocking, pending_error, flag, aborted_versions,
                   refused_aborts, last_executed, to_validate>>

\* try_validate that reports every validation to finish_validation as passed.
FinishValidationNeverAborted(w) ==
    /\ pc[w] = "finish_validation"
    /\ \E immediate \in BOOLEAN :
       \E r \in {finish_validation(TaskVersion(w), FALSE, immediate)} :
           /\ transactions_status' = r.status
           /\ execution_idx' = r.execution_idx
           /\ validation_idx' = r.validation_idx
           /\ num_active_tasks' = r.num_active_tasks
           /\ LoopTail(w, r.task)
    /\ to_validate' = to_validate \cup
                         (IF flag[w] THEN ExecutedAbove(task[w].tx_idx) ELSE {})
    /\ flag' = [flag EXCEPT ![w] = FALSE]
    /\ UNCHANGED <<block_vars, transactions_dependents, transactions_dependencies,
                   mv_vars, retried_tx, execution_error, execution_results, db, blocking, pending_error,
                   aborted_versions, refused_aborts, estimated, last_executed>>

\* try_validate: scheduler.finish_validation(tx_version, aborted)
FinishValidation(w) ==
    /\ pc[w] = "finish_validation"
    /\ \E immediate \in BOOLEAN :
       \E r \in {finish_validation(TaskVersion(w), flag[w], immediate)} :
           /\ transactions_status' = r.status
           /\ execution_idx' = r.execution_idx
           /\ validation_idx' = r.validation_idx
           /\ num_active_tasks' = r.num_active_tasks
           /\ LoopTail(w, r.task)
    /\ to_validate' = to_validate \cup
                         (IF flag[w] THEN ExecutedAbove(task[w].tx_idx) ELSE {})
    /\ flag' = [flag EXCEPT ![w] = FALSE]
    /\ UNCHANGED <<block_vars, transactions_dependents, transactions_dependencies,
                   mv_vars, retried_tx, execution_error, execution_results, db, blocking, pending_error,
                   aborted_versions, refused_aborts, estimated, last_executed>>

\* ------------------------------------------------ execute_revm_sequential
\* execute_tx with the reward paid by the EVM itself (pay_beneficiary = true).
SequentialTx(tx, view) ==
    LET res == Evm(tx, view)
        cb  == IF Coinbase \in DOMAIN res.state THEN res.state[Coinbase]
               ELSE view.basic[Coinbase]
    IN  [kind  |-> res.kind,
         state |-> (Coinbase :> [cb EXCEPT !.balance = @ + Fee]) @@ res.state,
         slot  |-> res.slot]

\* db.commit(result_and_state.state)
Commit(view, r) ==
    [basic |-> [a \in Addrs |-> IF a \in DOMAIN r.state THEN r.state[a] ELSE view.basic[a]],
     slot  |-> IF r.slot # -1 THEN r.slot ELSE view.slot]

ResultOf(success, state, slot) == [success |-> success, state |-> state, slot |-> slot]

\* The loop of execute_revm_sequential from transaction k on; the outcome is
\* Err or the results pushed so far.
RECURSIVE SequentialFrom(_, _, _)
SequentialFrom(k, view, results) ==
    IF k > Len(txs) THEN [ok |-> TRUE, results |-> results]
    ELSE LET r == SequentialTx(txs[k], view)
         IN  IF r.kind \in InvalidTransaction
             THEN [ok |-> FALSE, results |-> << >>]
             ELSE SequentialFrom(k + 1, Commit(view, r),
                                 Append(results,
                                        ResultOf(r.kind = "Success", r.state, r.slot)))

execute_revm_sequential == SequentialFrom(1, pre, << >>)

\* ------------------------------------------- execute_revm: the result vector
\* mv_memory.consume_beneficiary(): the value each transaction recorded at the
\* beneficiary location, in index order.
consume_beneficiary == [k \in 1 .. BlockSize |-> data[Basic(Coinbase)][k - 1].val]

\* post_process_beneficiary: the beneficiary account after one more value.
post_process_beneficiary(beneficiary_account_info, value) ==
    IF value.t = "Basic" THEN value.info
    ELSE [beneficiary_account_info EXCEPT !.balance = @ + value.add]

RECURSIVE BeneficiaryAfter(_, _)
BeneficiaryAfter(k, values) ==
    IF k = 0 THEN pre.basic[Coinbase]
    ELSE post_process_beneficiary(BeneficiaryAfter(k - 1, values), values[k])

\* Ok(...) of execute_revm: every stored result with the evaluated
\* beneficiary account inserted into its state.
ParallelResults ==
    [k \in 1 .. BlockSize |->
        LET r == execution_results[k - 1]
        IN  ResultOf(r.success,
                     (Coinbase :> BeneficiaryAfter(k, consume_beneficiary)) @@ r.state,
                     r.slot)]

\* What execute_revm returns once the workers have joined.
execute_revm ==
    IF execution_error # "none" THEN [ok |-> FALSE, results |-> << >>]
    ELSE [ok |-> TRUE, results |-> ParallelResults]

AllExited == \A w \in workers : pc[w] = "exited"
Joined    == \A w \in workers : pc[w] \in {"exited", "panicked"}

Next ==
    \/ \E w \in workers : LoopExit(w)
    \/ \E w \in workers : NextTask(w)
    \/ \E w \in workers : ExecuteRead(w)
    \/ \E w \in workers : SetExecutionError(w)
    \/ \E w \in workers : AddDependency(w)
    \/ \E w \in workers : Record(w)
    \/ \E w \in workers : FinishExecution(w)
    \/ \E w \in workers : Validate(w)
    \/ \E w \in workers : TryValidationAbort(w)
    \/ \E w \in workers : ConvertWritesToEstimates(w)
    \/ \E w \in workers : FinishValidation(w)

Spec == Init /\ [][Next]_vars

\* Every spawned thread keeps being scheduled.
WorkerStep(w) ==
    /\ w \in workers
    /\ \/ LoopExit(w)
       \/ NextTask(w)
       \/ ExecuteRead(w)
       \/ SetExecutionError(w)
       \/ AddDependency(w)
       \/ Record(w)
       \/ FinishExecution(w)
       \/ Validate(w)
       \/ TryValidationAbort(w)
       \/ ConvertWritesToEstimates(w)
       \/ FinishValidation(w)

FairSpec == Spec /\ \A w \in 1 .. MaxConcurrency : WF_vars(WorkerStep(w))

\* ------------------------------------- execute_revm before the workers start
\* The longest of the short blocks, over every shape of transaction below.
MaxShortBlock == 3

\* The longest of the long blocks; the long blocks start at 10 transactions,
\* the shortest length at which nine tenths of a block is a whole number.
MaxLongBlock == 11

\* Senders and recipients of the short blocks.
Parties == {"a", "b", Coinbase}

ShortShapes ==
    {Transfer(x[1], x[2], x[3]) :
        x \in {y \in Parties \X Parties \X {0, 1} : y[1] # y[2]}}
    \cup {Call("a", "set"), Call("b", "set")}

\* Transfers of nothing to oneself: every one depends on the same sender's
\* previous one and on nothing else.
LongShapes == {Transfer("a", "a", 0), Transfer("b", "b", 0)}

Blocks(shapes, lengths) == UNION {[1 .. n -> shapes] : n \in lengths}

\* The blocks execute_revm is called with.
PreBlocks ==
    Blocks(ShortShapes, 1 .. MaxShortBlock) \cup Blocks(LongShapes, 10 .. MaxLongBlock)

\* execute_revm is entered with a non-empty block; nothing is built yet.
PreInit ==
    /\ txs \in PreBlocks
    /\ pre = PreState(0)
    /\ workers = {}
    /\ phase = "preprocess"
    /\ transactions_status = << >>
    /\ transactions_dependents = << >>
    /\ transactions_dependencies = << >>
    /\ execution_idx = 0
    /\ validation_idx = 0
    /\ num_active_tasks = 0
    /\ data = << >>
    /\ last_written_locations = << >>
    /\ last_read_set = << >>
    /\ retried_tx = << >>
    /\ execution_error = "none"
    /\ execution_results = << >>
    /\ pc = << >>
    /\ task = << >>
    /\ consecutive_empty_tasks = << >>
    /\ db = << >>
    /\ blocking = << >>
    /\ pending_error = << >>
    /\ flag = << >>
    /\ aborted_versions = {}
    /\ refused_aborts = {}
    /\ estimated = {}
    /\ last_executed = << >>
    /\ to_validate = {}

\* `let Some(..) = preprocess_dependencies(..) else { return
\* execute_revm_sequential(..) }`: the else arm.
FallBack ==
    /\ phase = "preprocess"
    /\ preprocess_dependencies(txs).none
    /\ phase' = "sequential"
    /\ UNCHANGED <<txs, pre, workers, sched_vars, mv_vars, retried_tx, execution_error,
                   execution_results, pc, task, consecutive_empty_tasks, db, blocking,
                   pending_error, flag, hist_vars>>

\* The Some arm: the scheduler of preprocess_dependencies, the multi-version
\* memory, and the spawned workers.
NewScheduler ==
    /\ phase = "preprocess"
    /\ \E p \in {preprocess_dependencies(txs)} :
       \E concurrency_level \in 1 .. MaxConcurrency :
       \E ws \in {1 .. Min(concurrency_level, max_concurrency_level(BlockSize))} :
           /\ ~p.none
           /\ workers' = ws
           /\ phase' = "parallel"
           /\ transactions_status' = p.status
           /\ transactions_dependents' = p.dependents
           /\ transactions_dependencies' = p.dependencies
           /\ execution_idx' = 0
           /\ validation_idx' = p.start
           /\ num_active_tasks' = 0
           /\ data' = [loc \in Locs |-> [k \in TxIdxs |-> NoEntry]]
           /\ last_written_locations' = [k \in TxIdxs |-> {}]
           /\ last_read_set' = [k \in TxIdxs |-> << >>]
           /\ retried_tx' = [k \in TxIdxs |-> 0]
           /\ execution_results' = [k \in TxIdxs |-> NoResult]
           /\ pc' = [w \in ws |-> "loop"]
           /\ task' = [w \in ws |-> NoTask]
           /\ consecutive_empty_tasks' = [w \in ws |-> 0]
           /\ db' = [w \in ws |-> << >>]
           /\ blocking' = [w \in ws |-> -1]
           /\ pending_error' = [w \in ws |-> "none"]
           /\ flag' = [w \in ws |-> FALSE]
           /\ aborted_versions' =
                  {Version(k, 0) : k \in {j \in TxIdxs : p.status[j].status = "Aborting"}}
           /\ last_executed' = [k \in TxIdxs |-> -1]
    /\ UNCHANGED <<txs, pre, execution_error, refused_aborts, estimated, to_validate>>

PreNext == FallBack \/ NewScheduler

\* execute_revm from its entry to the start of one of the two executions.
PreSpec == PreInit /\ [][PreNext]_vars

\* What execute_revm returns.
Returned ==
    IF phase = "sequential" THEN execute_revm_sequential ELSE execute_revm

\* ----------------------------------------------------------- properties
Holds(w)  == task[w] # NoTask /\ pc[w] \notin {"exited", "panicked"}
HeldTasks == Cardinality({w \in workers : Holds(w)})
Committed == \A k \in TxIdxs : Status(k) \in {"Executed", "Validated"}
NoExecutionError == execution_error = "none"

\* C1: once the workers have joined, execute_revm returns what
\* execute_revm_sequential returns: the same outcome and, for every TxIdx, the
\* same result and state changes.
C1_Equivalence == AllExited => execute_revm = execute_revm_sequential

\* C2: under weak fairness of every worker, a run without an execution error
\* eventually reaches done() with every transaction executed: nothing waits
\* forever in Aborting and no abort / re-execution cycle goes on forever.
C2_Termination == <>(~NoExecutionError \/ (done /\ Committed))

\* C2 witness: the scheduler is done after some transaction was aborted in
\* two of its incarnations.
C2_Witness ==
    /\ done /\ Committed /\ NoExecutionError
    /\ \E v \in aborted_versions : v.tx_incarnation >= 1

\* C3: done() is exactly execution_idx >= block_size, validation_idx >=
\* block_size and num_active_tasks = 0, and while it is true no worker holds
\* an execution or validation task it has not finished.
C3_Done ==
    /\ done <=> (execution_idx >= BlockSize /\ validation_idx >= BlockSize
                 /\ num_active_tasks = 0)
    /\ done => HeldTasks = 0
    /\ NoExecutionError => num_active_tasks = HeldTasks

\* C3 witness: both cursors are at the end of the block and done() is still
\* false because a worker holds a task.
C3_Witness ==
    /\ execution_idx >= BlockSize /\ validation_idx >= BlockSize
    /\ HeldTasks > 0 /\ ~done

\* C4: a try_validation_abort call returns true for a version at most once
\* and only from Executed(Inc) or Validated(Inc) of that same incarnation,
\* which it turns into Aborting(Inc); a call that returns false leaves every
\* status unchanged.
C4_FirstAbortWins ==
    [][\A w \in workers :
          (pc[w] = "try_validation_abort" /\ pc'[w] # pc[w]) =>
             LET v == Version(task[w].tx_idx, task[w].tx_incarnation)
                 returned == pc'[w] = "convert_writes_to_estimates"
             IN  /\ returned =>
                       /\ v \notin aborted_versions
                       /\ transactions_status[v.tx_idx] \in
                             {St(v.tx_incarnation, "Executed"),
                              St(v.tx_incarnation, "Validated")}
                       /\ transactions_status'[v.tx_idx] = St(v.tx_incarnation, "Aborting")
                 /\ ~returned => transactions_status' = transactions_status]_vars

\* C4 witness: a version whose abort succeeded once and was refused to
\* another call.
C4_Witness == aborted_versions \cap refused_aborts # {}

\* C5: the incarnation of a status never decreases, a transaction reaches
\* Executed in strictly increasing incarnations, and no version enters
\* Aborting twice.
C5_Monotonic ==
    [][\A k \in TxIdxs :
          /\ transactions_status'[k].incarnation >= transactions_status[k].incarnation
          /\ (transactions_status'[k] # transactions_status[k]
                /\ transactions_status'[k].status = "Executed")
              => transactions_status'[k].incarnation > last_executed[k]
          /\ (transactions_status'[k] # transactions_status[k]
                /\ transactions_status'[k].status = "Aborting")
              => Version(k, transactions_status'[k].incarnation) \notin aborted_versions]_vars

\* C5 witness: a transaction has reached Executed in a second incarnation
\* after an abort of an earlier one.
C5_Witness ==
    \E k \in TxIdxs : last_executed[k] >= 1 /\ Version(k, 0) \in aborted_versions

\* C6: when done() holds no entry of the multi-version memory is an Estimate.
C6_NoStrandedEstimate ==
    done => \A loc \in Locs : \A k \in TxIdxs : data[loc][k] # Estimate

\* C6 witness: done() holds after one Estimate was removed by the record of
\* the next incarnation and another was overwritten by it.
C6_Witness ==
    /\ done
    /\ \E e \in estimated : data[e[1]][e[2]] = NoEntry
    /\ \E e \in estimated : data[e[1]][e[2]] \notin {NoEntry, Estimate}

C8_DependentAbove ==
    /\ \A k \in TxIdxs : \A d \in transactions_dependents[k] : d > k
    /\ \A k \in TxIdxs : \A j \in transactions_dependencies[k] : k > j
    /\ \A w \in workers : pc[w] = "add_dependency" => task[w].tx_idx > blocking[w]

\* C8 witness: a dependency registered by add_dependency while the block runs
\* on a transaction below the immediate predecessor of its dependent.
C8_Witness ==
    \E k \in TxIdxs :
        /\ last_executed[k] >= 0 \/ transactions_status[k].incarnation >= 1
        /\ transactions_dependencies[k] # {}

\* C9: when every worker has left its loop and no execution error is
\* recorded, done() holds and every transaction has a stored result.
C9_ResultsAfterDone ==
    (AllExited /\ NoExecutionError) =>
        (done /\ \A k \in TxIdxs : execution_results[k] # NoResult)

\* C9 witness: all workers have left, one of them through the early exit
\* after three consecutive empty tasks.
C9_Witness ==
    /\ AllExited /\ NoExecutionError
    /\ \E w \in workers : consecutive_empty_tasks[w] = EmptyTasksExit

\* C10: when the sequential execution of the block succeeds, the parallel
\* execution records no execution error.
C10_NoSpuriousError == execute_revm_sequential.ok => NoExecutionError

\* C11: whichever workers hit an execution error, and however their steps
\* interleave, no worker panics: an error that finds the one-shot slot full
\* is dropped and its worker goes on to leave its loop.
C11_LaterErrorsDropped == \A w \in workers : pc[w] # "panicked"

\* C12: once an execution error is recorded and the worker threads have
\* ended, every one of them has left its loop, and execute_revm returns
\* Err(ExecutionError) with no result vector.
C12_ErrorReturned ==
    (Joined /\ ~NoExecutionError) =>
        (AllExited /\ ~execute_revm.ok /\ execute_revm.results = << >>)

\* C13: for every location, every reader index and every order in which the
\* location map is iterated, read answers from the highest entry strictly
\* below the reader: Ok with its version and value when it is Data,
\* ReadError with its index when it is Estimate, NotFound when there is no
\* entry below the reader.  Entries at or above the reader play no part.
C13_ReadHighestBelow ==
    \A loc \in Locs : \A reader \in 0 .. BlockSize : \A o \in IterOrders(data[loc]) :
        LET m == data[loc]
            r == ReadMemoryResult(m, ReadLoop(m, reader, o, -1))
            lower == {i \in TxIdxs : i < reader /\ m[i] # NoEntry}
        IN  IF lower = {} THEN r = [r |-> "NotFound"]
            ELSE \E j \in lower :
                    /\ \A i \in lower : i <= j
                    /\ m[j] = Estimate =>
                          r = [r |-> "ReadError", blocking_tx_idx |-> j]
                    /\ m[j] # Estimate =>
                          r = [r |-> "Ok", version |-> OMv(j, m[j].inc), value |-> m[j].val]

\* C13 witness: a reader with a Data entry below it while the reader itself
\* and a higher transaction have written the location too, and another
\* reader whose highest lower entry is an Estimate.
C13_Witness ==
    /\ \E loc \in Locs : \E reader \in TxIdxs :
          /\ MvRead(loc, reader).r = "Ok"
          /\ data[loc][reader] # NoEntry
          /\ \E i \in TxIdxs : i > reader /\ data[loc][i] # NoEntry
    /\ \E loc \in Locs : \E reader \in TxIdxs : MvRead(loc, reader).r = "ReadError"

\* C14: record returns true exactly when it leaves the transaction with an
\* entry at a location where it had none before the call, that is, when the
\* write-set holds a location the previous record of the transaction did not
\* write; the same locations or a subset of them give false.
C14_WroteNewLocation ==
    [][\A w \in workers :
          (pc[w] = "record" /\ pc'[w] = "finish_execution") =>
              (flag'[w] <=> \E loc \in Locs :
                               /\ data'[loc][task[w].tx_idx] # NoEntry
                               /\ data[loc][task[w].tx_idx] = NoEntry)]_vars

\* C14 witness: a later incarnation has recorded fewer locations than the
\* one before it and record has returned false.
C14_Witness ==
    \E w \in workers :
        /\ pc[w] = "finish_execution"
        /\ ~flag[w]
        /\ task[w].tx_incarnation >= 1
        /\ \E loc \in Locs : <<loc, task[w].tx_idx>> \in estimated
                             /\ data[loc][task[w].tx_idx] = NoEntry

\* C15: validate_read_set(tx_idx) is true exactly when every location of the
\* recorded read-set still has the origin that was recorded: no entry below
\* tx_idx where the origin was Storage, and where it was a version, that
\* version's Data as the highest entry below tx_idx.  An entry below a
\* Storage origin, another version, no entry where a version was read, and
\* an Estimate all make it false.
C15_ValidateReadSet ==
    \A k \in TxIdxs :
        validate_read_set(k) <=>
            \A loc \in DOMAIN last_read_set[k] :
                LET o     == Head(last_read_set[k][loc])
                    lower == {i \in TxIdxs : i < k /\ data[loc][i] # NoEntry}
                IN  IF o = OStorage THEN lower = {}
                    ELSE /\ o.tx_idx \in lower
                         /\ \A i \in lower : i <= o.tx_idx
                         /\ data[loc][o.tx_idx] # Estimate
                         /\ data[loc][o.tx_idx].inc = o.tx_incarnation

\* C15 witness: a validation has just failed on a read-set that recorded a
\* version at a location whose re-read is now blocked by an Estimate.
C15_Witness ==
    \E w \in workers :
        /\ pc[w] = "try_validation_abort"
        /\ \E loc \in DOMAIN last_read_set[task[w].tx_idx] :
              /\ MvRead(loc, task[w].tx_idx).r = "ReadError"
              /\ Head(last_read_set[task[w].tx_idx][loc]) # OStorage

\* The transactions 0..k are all Validated.
ValidatedUpTo(k) == \A j \in 0 .. k : Status(j) = "Validated"

\* No validation of 0..k is outstanding: the validation cursor is above k and
\* no worker holds a task of a transaction in 0..k.
SettledUpTo(k) ==
    /\ ValidatedUpTo(k)
    /\ validation_idx > k
    /\ \A w \in workers : Holds(w) => task[w].tx_idx > k

\* A step leaves the status, the stored result and the multi-version entries
\* of the transactions 0..k as they are.
KeepsUpTo(k) ==
    \A j \in 0 .. k :
        /\ transactions_status'[j] = transactions_status[j]
        /\ execution_results'[j] = execution_results[j]
        /\ \A loc \in Locs : data'[loc][j] = data[loc][j]

\* C16 as stated: once the transactions 0..k are all Validated, no step
\* changes the status, the incarnation, the stored result or the
\* multi-version entries of any of them.
C16_ValidatedPrefixFinal ==
    [][\A k \in TxIdxs : ValidatedUpTo(k) => KeepsUpTo(k)]_vars

\* C16: once the transactions 0..k are all Validated, the validation cursor
\* is above k and no worker holds a task of a transaction in 0..k, this
\* stays so and no step changes the status, the incarnation, the stored
\* result or the multi-version entries of any of them.
C16_SettledPrefixFinal ==
    [][\A k \in TxIdxs : SettledUpTo(k) => (KeepsUpTo(k) /\ SettledUpTo(k)')]_vars

\* C16 witness: transactions 0 and 1 are settled, transaction 1 in a later
\* incarnation, while transaction 2 is still being worked on.
C16_Witness ==
    /\ SettledUpTo(1)
    /\ Inc(1) >= 1
    /\ \E w \in workers : Holds(w) /\ task[w].tx_idx = 2

\* The accounts written lazily: the beneficiary and the recipients of the
\* plain transfers to accounts without code.
LazyAccounts ==
    {Coinbase} \cup {Tx(k).to : k \in {j \in TxIdxs : Mocked(Tx(j), Tx(j).to)}}

\* The balance the entries of a location map resolve to at index j: the
\* latest Basic value at or below j, or the storage balance, plus the
\* LazyBalanceAddition deltas above it.
RECURSIVE ResolvedBalance(_, _, _)
ResolvedBalance(addr, m, j) ==
    IF j < 0 THEN pre.basic[addr].balance
    ELSE IF m[j] \in {NoEntry, Estimate} THEN ResolvedBalance(addr, m, j - 1)
    ELSE IF m[j].val.t = "Basic" THEN m[j].val.info.balance
    ELSE m[j].val.add + ResolvedBalance(addr, m, j - 1)

\* The last transaction whose emitted result holds the account (-1: none).
LastTouching(addr) ==
    LET S == {k \in TxIdxs : addr \in DOMAIN ParallelResults[k + 1].state}
    IN  IF S = {} THEN -1 ELSE CHOOSE k \in S : \A j \in S : j <= k

\* C17: when the block has been executed without error, the balance of the
\* beneficiary and of every plain-transfer recipient in the result of the
\* last transaction touching it is the latest Basic value of the account in
\* the multi-version memory, or its storage balance, plus the lazy
\* additions recorded above that value.
C17_LazyBalanceRoundTrip ==
    (AllExited /\ NoExecutionError) =>
        \A addr \in LazyAccounts :
            LastTouching(addr) # -1 =>
                ParallelResults[LastTouching(addr) + 1].state[addr].balance
                    = ResolvedBalance(addr, data[Basic(addr)], LastTouching(addr))

\* The edges of the state machine of a transaction's status.
Edge(s, t) ==
    \/ s.status = "ReadyToExecute" /\ t = St(s.incarnation, "Executing")
    \/ s.status = "Executing"      /\ t = St(s.incarnation, "Executed")
    \/ s.status = "Executed"       /\ t = St(s.incarnation, "Validated")
    \/ s.status \in {"Executed", "Validated"} /\ t = St(s.incarnation, "Aborting")
    \/ s.status = "Executing"      /\ t = St(s.incarnation, "Aborting")
    \/ s.status = "Aborting"       /\ t = St(s.incarnation + 1, "ReadyToExecute")

\* finish_validation handing the next incarnation back to its caller w: the
\* edge to ReadyToExecute(i + 1) and the edge to Executing(i + 1) in one call.
HandedBack(w, k, s, t) ==
    /\ pc[w] = "finish_validation" /\ task[w].tx_idx = k
    /\ task'[w] = ExecutionTask(Version(k, s.incarnation + 1))
    /\ Edge(s, St(s.incarnation + 1, "ReadyToExecute"))
    /\ Edge(St(s.incarnation + 1, "ReadyToExecute"), t)

\* C18: in every step, the status of a transaction stays as it is or moves
\* along one edge of the state machine; the only step that takes two edges
\* is the finish_validation that releases an aborted transaction and hands
\* its next incarnation to the caller.
C18_StatusEdges ==
    [][\A k \in TxIdxs :
          \/ transactions_status'[k] = transactions_status[k]
          \/ Edge(transactions_status[k], transactions_status'[k])
          \/ \E w \in workers :
                HandedBack(w, k, transactions_status[k], transactions_status'[k])]_vars

\* C18 witness: a transaction that was aborted in two incarnations and is
\* Validated in its third.
C18_Witness ==
    \E k \in TxIdxs :
        /\ transactions_status[k] = St(2, "Validated")
        /\ {Version(k, 0), Version(k, 1)} \subseteq aborted_versions

\* C19: a record of version (k, i) leaves transaction k with an entry at
\* exactly the locations of the write-set, each Data(i, value) with the
\* value of the write-set; the entries it held elsewhere are gone, and the
\* entries of the other transactions are as before.
C19_RecordExact ==
    [][\A w \in workers :
          (pc[w] = "record" /\ pc'[w] = "finish_execution") =>
              LET k  == task[w].tx_idx
                  ws == VmExecute(k, db[w], MaxRetries).write_set
              IN  /\ \A loc \in Locs :
                        IF loc \in WriteLocations(ws)
                        THEN \E n \in 1 .. Len(ws) :
                                /\ ws[n][1] = loc
                                /\ data'[loc][k] = Data(task[w].tx_incarnation, ws[n][2])
                        ELSE data'[loc][k] = NoEntry
                  /\ \A loc \in Locs : \A j \in TxIdxs \ {k} :
                        data'[loc][j] = data[loc][j]]_vars

\* C19 witness: a record of a later incarnation has just replaced one
\* Estimate of its transaction by Data and deleted another.
C19_Witness ==
    \E w \in workers :
        /\ pc[w] = "finish_execution"
        /\ \E loc \in Locs :
              /\ <<loc, task[w].tx_idx>> \in estimated
              /\ data[loc][task[w].tx_idx] = NoEntry
        /\ \E loc \in Locs :
              /\ <<loc, task[w].tx_idx>> \in estimated
              /\ data[loc][task[w].tx_idx] \notin {NoEntry, Estimate}
              /\ data[loc][task[w].tx_idx].inc = task[w].tx_incarnation

\* The versions whose writes convert_writes_to_estimates has marked: aborted,
\* with no conversion still to come.
Converted ==
    {v \in aborted_versions :
        ~\E w \in workers : pc[w] = "convert_writes_to_estimates" /\ TaskVersion(w) = v}

\* The read-set of k holds the origin at some location.
ReadsOrigin(k, origin) ==
    \E loc \in DOMAIN last_read_set[k] :
        \E n \in 1 .. Len(last_read_set[k][loc]) : last_read_set[k][loc][n] = origin

\* C20: when convert_writes_to_estimates(j) has run for an aborted
\* incarnation (j, i), every entry of j at its last written locations is an
\* Estimate, and as long as the read-set of a higher transaction k holds the
\* origin Mv(j, i), validate_read_set(k) is false.
C20_EstimatesInvalidate ==
    /\ \A w \in workers :
          (pc[w] = "finish_validation" /\ flag[w]) =>
              \A loc \in last_written_locations[task[w].tx_idx] :
                  data[loc][task[w].tx_idx] = Estimate
    /\ \A v \in Converted : \A k \in TxIdxs :
          (k > v.tx_idx /\ ReadsOrigin(k, OMv(v.tx_idx, v.tx_incarnation)))
              => ~validate_read_set(k)

\* C21: add_dependency(tx_idx, blocking_idx) takes one of two courses in one
\* step.  When the blocker has not finished, tx_idx becomes a dependent of
\* the blocker and Aborting in its incarnation, and the worker is left
\* without a task.  When the blocker is Executed or Validated, nothing of the
\* scheduler changes, tx_idx stays Executing in its incarnation, and the
\* worker runs the same version again at once.
C21_AddDependencyAtomic ==
    [][\A w \in workers :
          (pc[w] = "add_dependency" /\ pc'[w] # pc[w]) =>
              LET k == task[w].tx_idx
                  b == blocking[w]
                  i == task[w].tx_incarnation
              IN  /\ transactions_status[k] = St(i, "Executing")
                  /\ b < k
                  /\ IF Status(b) \in {"Executed", "Validated"}
                     THEN /\ UNCHANGED sched_vars
                          /\ pc'[w] = "execute"
                          /\ task'[w] = task[w]
                     ELSE /\ transactions_status' =
                                [transactions_status EXCEPT ![k] = St(i, "Aborting")]
                          /\ k \in transactions_dependents'[b]
                          /\ b \in transactions_dependencies'[k]
                          /\ task'[w] = NoTask]_vars

\* C21 witness: add_dependency has returned false to a worker: its
\* transaction is still Executing in the same incarnation and the worker is
\* back at the start of the execution of the same version.
C21_Witness ==
    \E w \in workers :
        /\ pc[w] = "execute" /\ db[w] = << >>
        /\ task[w].t = "Execution"
        /\ transactions_status[task[w].tx_idx] = St(task[w].tx_incarnation, "Executing")

\* An Aborting transaction that somebody is still bound to resume: the worker
\* that aborted it in a validation has not yet called finish_validation, or
\* it waits on dependencies, each of which has it among its dependents and
\* has not finished the execution that will release it.
HasResumer(k) ==
    \/ \E w \in workers :
          /\ pc[w] \in {"convert_writes_to_estimates", "finish_validation"}
          /\ flag[w]
          /\ task[w].tx_idx = k
    \/ /\ transactions_dependencies[k] # {}
       /\ \A j \in transactions_dependencies[k] :
             /\ k \in transactions_dependents[j]
             /\ Status(j) \notin {"Executed", "Validated"}

\* No transaction is Aborting without somebody left to resume it, and the
\* two sides of the dependency relation agree.
NoLostWakeUp ==
    /\ \A k \in TxIdxs : Status(k) = "Aborting" => HasResumer(k)
    /\ \A j, k \in TxIdxs :
          k \in transactions_dependents[j] <=> j \in transactions_dependencies[k]

\* The step of worker w is a finish_execution.
FinishesExecution(w) == pc[w] = "finish_execution" /\ pc'[w] # pc[w]

\* C22 as stated: when j finishes an execution every dependent of j is moved
\* back to ReadyToExecute, and no Aborting transaction is left without
\* somebody to resume it.
C22_EveryDependentReady ==
    /\ []NoLostWakeUp
    /\ [][\A w \in workers : FinishesExecution(w) =>
            \A d \in transactions_dependents[task[w].tx_idx] :
                transactions_status'[d].status = "ReadyToExecute"]_vars

\* C22 amended: when j finishes an execution, j leaves the dependencies of
\* every dependent; a dependent that waits on nothing else is moved from
\* Aborting(i) to ReadyToExecute(i + 1), a dependent with another pending
\* dependency stays Aborting and is resumed by the last of them; no Aborting
\* transaction is left without somebody to resume it.
C22_NoLostWakeUp ==
    /\ []NoLostWakeUp
    /\ [][\A w \in workers : FinishesExecution(w) =>
            LET j == task[w].tx_idx
            IN  /\ transactions_dependents'[j] = {}
                /\ \A d \in transactions_dependents[j] :
                      /\ Status(d) = "Aborting"
                      /\ IF transactions_dependencies[d] = {j}
                         THEN transactions_status'[d] =
                                  St(Inc(d) + 1, "ReadyToExecute")
                         ELSE /\ transactions_status'[d] = transactions_status[d]
                              /\ transactions_dependencies'[d] =
                                     transactions_dependencies[d] \ {j}
                              /\ transactions_dependencies'[d] # {}]_vars

\* C22 witness: a dependent seeded with two dependencies is still Aborting
\* after the finish_execution of one of them and waits on the other, while a
\* worker is about to call finish_execution.
C22_Witness ==
    /\ \E k \in TxIdxs :
          /\ Status(k) = "Aborting"
          /\ Cardinality(preprocess_dependencies(txs).dependencies[k]) = 2
          /\ Cardinality(transactions_dependencies[k]) = 1
    /\ \E w \in workers : pc[w] = "finish_execution"

\* The step of worker w is a call of next_task: the worker is at the head of
\* its loop without a task, and leaves with a task or with one more empty
\* task counted.
CallsNextTask(w) ==
    /\ pc[w] = "loop"
    /\ task[w] = NoTask
    /\ \/ task'[w] # NoTask
       \/ consecutive_empty_tasks'[w] # consecutive_empty_tasks[w]

\* C23: next_task hands out a validation task only when validation_idx <
\* execution_idx, and only Validation(k, i) of a transaction that is Executed
\* or Validated in incarnation i and has finished executing it; it hands out
\* an execution task only when validation_idx >= execution_idx, and only
\* Execution(k, i) of a transaction that is ReadyToExecute(i), which becomes
\* Executing(i); no other status changes; num_active_tasks grows by one
\* exactly when a task is handed out.
C23_NextTask ==
    [][\A w \in workers : CallsNextTask(w) =>
          LET t == task'[w]
          IN  /\ t.t = "Validation" =>
                    /\ validation_idx < execution_idx
                    /\ Status(t.tx_idx) \in {"Executed", "Validated"}
                    /\ Inc(t.tx_idx) = t.tx_incarnation
                    /\ last_executed[t.tx_idx] = t.tx_incarnation
                    /\ t.tx_idx >= validation_idx
                    /\ UNCHANGED transactions_status
              /\ t.t = "Execution" =>
                    /\ validation_idx >= execution_idx
                    /\ transactions_status[t.tx_idx] =
                           St(t.tx_incarnation, "ReadyToExecute")
                    /\ t.tx_idx >= execution_idx
                    /\ transactions_status' =
                           [transactions_status EXCEPT
                              ![t.tx_idx] = St(t.tx_incarnation, "Executing")]
              /\ t = NoTask => UNCHANGED transactions_status
              /\ num_active_tasks' =
                     IF t = NoTask THEN num_active_tasks ELSE num_active_tasks + 1
       ]_vars

\* C23 witness: a worker holds the first incarnation of a transaction above
\* 0 as an execution task, which only next_task hands out, while another
\* worker holds the validation of a later incarnation.
C23_Witness ==
    \E w1, w2 \in workers :
        /\ task[w1].t = "Validation" /\ task[w1].tx_incarnation >= 1
        /\ pc[w1] = "loop"
        /\ task[w2].t = "Execution" /\ pc[w2] = "loop"
        /\ task[w2].tx_incarnation = 0 /\ task[w2].tx_idx >= 1

\* Every transaction that a scheduler call has left to validate is executed
\* and is still reached by validation: it lies at or above validation_idx, or
\* a worker holds the validation task of its incarnation and has not yet run
\* it (the worker may leave it undone only on an execution error).  Nothing
\* is left to validate when done() holds.
ValidationOwed ==
    /\ done => to_validate = {}
    /\ \A m \in to_validate :
          /\ Status(m) \in {"Executed", "Validated"}
          /\ \/ m >= validation_idx
             \/ execution_error # "none"
             \/ \E w \in workers :
                   /\ task[w] = ValidationTask(Version(m, Inc(m)))
                   /\ pc[w] = "loop"

\* C24: finish_execution(k, i, wrote_new_location) moves k from Executing(i)
\* to Executed(i).  With wrote_new_location it leaves validation_idx at
\* min(validation_idx, k + 1), and k and every executed transaction above k
\* are validated again before done().  Without it validation_idx is not
\* changed and k alone is scheduled for validation: as the task handed back
\* when validation_idx is already above k, through validation_idx otherwise.
C24_FinishExecution ==
    /\ []ValidationOwed
    /\ [][\A w \in workers : FinishesExecution(w) =>
            LET k == task[w].tx_idx
                i == task[w].tx_incarnation
            IN  /\ transactions_status[k] = St(i, "Executing")
                /\ transactions_status'[k] = St(i, "Executed")
                /\ k \in to_validate'
                /\ IF flag[w]
                   THEN /\ validation_idx' = Min(validation_idx, k + 1)
                        /\ ExecutedAbove(k) \subseteq to_validate'
                   ELSE /\ validation_idx' = validation_idx
                        /\ to_validate' = to_validate \cup {k}
                /\ IF validation_idx > k
                   THEN task'[w] = ValidationTask(Version(k, i))
                   ELSE task'[w] = NoTask]_vars

\* C24 witness: no validation has aborted anything, a finish_execution that
\* wrote a new location has lowered validation_idx, and a transaction above
\* it that was already Validated is left to validate again.
C24_Witness ==
    /\ \A v \in aborted_versions : last_executed[v.tx_idx] < v.tx_incarnation
    /\ \E m \in to_validate :
          /\ Status(m) = "Validated"
          /\ validation_idx <= m
          /\ \E k \in TxIdxs :
                k < m /\ last_executed[k] >= 0 /\ last_written_locations[k] # {}

\* The step of worker w is a finish_validation.
FinishesValidation(w) == pc[w] = "finish_validation" /\ pc'[w] # pc[w]

\* Every transaction that is ready to execute is still reached by
\* execution_idx, and none is left when done() holds.
ExecutionOwed ==
    \A k \in TxIdxs : Status(k) = "ReadyToExecute" => (k >= execution_idx /\ ~done)

\* C25: finish_validation(k, i, aborted = true) makes k ready in incarnation
\* i + 1 (handed at once to the caller as Execution(k, i + 1), or left
\* ReadyToExecute(i + 1) with execution_idx <= k), leaves validation_idx <=
\* k + 1, and every executed transaction above k is validated again before
\* done(); with aborted = false it changes nothing but Executed(i) of k into
\* Validated(i).
C25_FinishValidation ==
    /\ [](ExecutionOwed /\ \A m \in to_validate :
                              m >= validation_idx \/ ~done)
    /\ [][\A w \in workers : FinishesValidation(w) =>
            LET k == task[w].tx_idx
                i == task[w].tx_incarnation
            IN  IF flag[w]
                THEN /\ transactions_status[k] = St(i, "Aborting")
                     /\ \/ /\ transactions_status' =
                                 [transactions_status EXCEPT
                                    ![k] = St(i + 1, "ReadyToExecute")]
                           /\ task'[w] = NoTask
                           /\ num_active_tasks' = num_active_tasks - 1
                        \/ /\ transactions_status' =
                                 [transactions_status EXCEPT
                                    ![k] = St(i + 1, "Executing")]
                           /\ task'[w] = ExecutionTask(Version(k, i + 1))
                           /\ num_active_tasks' = num_active_tasks
                     /\ execution_idx' = Min(execution_idx, k)
                     /\ validation_idx' = Min(validation_idx, k + 1)
                     /\ ExecutedAbove(k) \subseteq to_validate'
                ELSE /\ transactions_status' =
                           IF transactions_status[k] = St(i, "Executed")
                           THEN [transactions_status EXCEPT ![k] = St(i, "Validated")]
                           ELSE transactions_status
                     /\ UNCHANGED <<execution_idx, validation_idx, to_validate>>
                     /\ task'[w] = NoTask
                     /\ num_active_tasks' = num_active_tasks - 1]_vars

\* C25 witness: a transaction that a validation aborted after its execution
\* is ReadyToExecute in the next incarnation with both cursors lowered, and
\* an executed transaction above it is left to validate again.
C25_Witness ==
    \E k \in TxIdxs :
        /\ Status(k) = "ReadyToExecute" /\ Inc(k) >= 1
        /\ last_executed[k] = Inc(k) - 1
        /\ Version(k, Inc(k) - 1) \in aborted_versions
        /\ execution_idx <= k /\ validation_idx <= k + 1
        /\ \E m \in to_validate : m > k

\* The dependencies preprocess_dependencies seeds for tx_idx: the lower
\* transactions that got tx_idx as a dependent.
SeededDependencies(tx_idx) ==
    {j \in TxIdxs : tx_idx \in preprocess_dependencies(txs).dependents[j]}

\* The scheduler as preprocess_dependencies builds it: Aborting(0) for the
\* transactions with seeded dependencies, ReadyToExecute(0) for the others.
SeededStatus ==
    \A k \in TxIdxs :
        transactions_status[k] =
            St(0, IF SeededDependencies(k) = {} THEN "ReadyToExecute" ELSE "Aborting")

\* A transaction one of whose seeded dependencies has not finished an
\* execution is still Aborting(0), and no worker holds it.
SeededWaits ==
    \A k \in TxIdxs :
        (\E j \in SeededDependencies(k) : last_executed[j] = -1) =>
            /\ transactions_status[k] = St(0, "Aborting")
            /\ \A w \in workers : task[w] # NoTask => task[w].tx_idx # k

\* C26: the run starts with Aborting(0) for every transaction with seeded
\* dependencies and ReadyToExecute(0) for every other one, and a transaction
\* with seeded dependencies is not handed out as an execution task, and does
\* not leave Aborting(0), before every one of them has finished an execution.
C26_SeededDependencies == SeededStatus /\ []SeededWaits

\* C26 witness: a transaction seeded with two dependencies is executing
\* after both have finished an execution.
C26_Witness ==
    \E k \in TxIdxs :
        /\ Cardinality(SeededDependencies(k)) = 2
        /\ Status(k) = "Executing"
        /\ \E w \in workers : task[w] = ExecutionTask(Version(k, Inc(k)))
        /\ \A j \in SeededDependencies(k) : last_executed[j] >= 0

\* ------------------------------------------------ preprocess_dependencies
\* The scheduler state of the running block is what preprocess_dependencies
\* made of the block.
Preprocessed == phase = "parallel" /\ execution_idx = 0 /\ num_active_tasks = 0

Lower(k)  == 0 .. (k - 1)
Latest(S) == IF S = {} THEN {} ELSE {CHOOSE j \in S : \A i \in S : i <= j}

SameSender(k)    == {j \in Lower(k) : txs[j + 1].caller = txs[k + 1].caller}
SameRecipient(k) == {j \in Lower(k) : txs[j + 1].to = txs[k + 1].to}

\* Transaction j is filed under addr in tx_idxes_by_address: addr sends it, or
\* receives a non-zero value from it.
FiledUnder(j, addr) ==
    \/ txs[j + 1].caller = addr
    \/ txs[j + 1].value # 0 /\ txs[j + 1].to = addr

BeneficiaryParty(k) == txs[k + 1].caller = Coinbase \/ txs[k + 1].to = Coinbase

\* C27 as stated: a transaction k > 0 with neither party the beneficiary
\* depends on the latest lower transaction with the same sender and, only
\* when it transfers a non-zero value, on the latest lower transaction with
\* the same recipient, and on nothing else.
C27_SameSenderSameRecipient ==
    Preprocessed =>
        \A k \in TxIdxs : (k > 0 /\ ~BeneficiaryParty(k)) =>
            transactions_dependencies[k] =
                Latest(SameSender(k)) \cup
                (IF txs[k + 1].value # 0 THEN Latest(SameRecipient(k)) ELSE {})

\* C27 amended: a transaction k > 0 with neither party the beneficiary
\* depends on the latest lower transaction that its sender sent or received a
\* non-zero value from and, only when it transfers a non-zero value, on the
\* latest lower transaction that its recipient sent or received a non-zero
\* value from, and on nothing else; it is a dependent of exactly these, and
\* Aborting(0) exactly when there is one.
C27_LatestFiledUnder ==
    Preprocessed =>
        \A k \in TxIdxs : (k > 0 /\ ~BeneficiaryParty(k)) =>
            LET deps == Latest({j \in Lower(k) : FiledUnder(j, txs[k + 1].caller)}) \cup
                        (IF txs[k + 1].value # 0
                         THEN Latest({j \in Lower(k) : FiledUnder(j, txs[k + 1].to)})
                         ELSE {})
            IN  /\ transactions_dependencies[k] = deps
                /\ \A j \in TxIdxs : k \in transactions_dependents[j] <=> j \in deps
                /\ transactions_status[k] =
                       St(0, IF deps = {} THEN "ReadyToExecute" ELSE "Aborting")

\* C27 witness: tx2 sends a non-zero value and waits on two transactions:
\* tx0, from which its sender received a value, and tx1, sent by its
\* recipient; no lower transaction has its sender or its recipient.
C27_Witness ==
    /\ Preprocessed
    /\ BlockSize = 3
    /\ ~BeneficiaryParty(2)
    /\ transactions_dependencies[2] = {0, 1}
    /\ SameSender(2) = {} /\ SameRecipient(2) = {}

\* The beneficiary branch of preprocess_dependencies: the beneficiary sends
\* the transaction, or receives a non-zero value from it.
BeneficiaryChanged(k) ==
    \/ txs[k + 1].caller = Coinbase
    \/ txs[k + 1].value # 0 /\ txs[k + 1].to = Coinbase

\* C28 as stated: a transaction k > 0 whose sender or recipient is the
\* beneficiary has exactly one dependency, k - 1.
C28_BeneficiaryParty ==
    Preprocessed =>
        \A k \in TxIdxs : (k > 0 /\ BeneficiaryParty(k)) =>
            transactions_dependencies[k] = {k - 1}

\* C28 amended: a transaction k > 0 that the beneficiary sends, or that
\* transfers a non-zero value to the beneficiary, has exactly one dependency,
\* k - 1, is a dependent of k - 1 alone and starts Aborting(0); a transaction
\* of another sender that transfers zero value to the beneficiary depends only
\* on the latest lower transaction filed under its sender.
C28_BeneficiaryChanged ==
    Preprocessed =>
        \A k \in TxIdxs : (k > 0 /\ BeneficiaryParty(k)) =>
            IF BeneficiaryChanged(k)
            THEN /\ transactions_dependencies[k] = {k - 1}
                 /\ \A j \in TxIdxs : k \in transactions_dependents[j] <=> j = k - 1
                 /\ transactions_status[k] = St(0, "Aborting")
            ELSE transactions_dependencies[k] =
                     Latest({j \in Lower(k) : FiledUnder(j, txs[k + 1].caller)})

\* C28 witness: tx2 is sent by the beneficiary and depends on tx1 alone,
\* although the beneficiary also sent tx0 and tx1 does not touch it.
C28_Witness ==
    /\ Preprocessed
    /\ BlockSize = 3
    /\ txs[3].caller = Coinbase /\ txs[1].caller = Coinbase
    /\ ~BeneficiaryParty(1)
    /\ transactions_dependencies[2] = {1}

\* The first index in S, block_size when S is empty.
FirstOr(S) == IF S = {} THEN BlockSize ELSE CHOOSE k \in S : \A j \in S : k <= j

WithCalldata == {k \in TxIdxs : txs[k + 1].data # ""}

HasSeededDependency(k) ==
    /\ k > 0
    /\ \/ BeneficiaryChanged(k)
       \/ \E j \in Lower(k) : FiledUnder(j, txs[k + 1].caller)
       \/ /\ txs[k + 1].value # 0
          /\ \E j \in Lower(k) : FiledUnder(j, txs[k + 1].to)

SeededCount == Cardinality({k \in TxIdxs : HasSeededDependency(k)})

\* More than 90% of the block has a seeded dependency.
ExceedsRatio == SeededCount * 10 > 9 * BlockSize

\* C30: preprocess_dependencies signals the fall-back exactly when the
\* transactions with a seeded dependency are more than 90% of the block
\* (count * 10 > 9 * block_size); execute_revm then builds no scheduler,
\* spawns no worker and returns what execute_revm_sequential returns;
\* otherwise it builds the scheduler and spawns workers.
C30_SequentialFallback ==
    /\ preprocess_dependencies(txs).none <=> ExceedsRatio
    /\ phase = "sequential" =>
          /\ ExceedsRatio
          /\ workers = {}
          /\ transactions_status = << >> /\ transactions_dependents = << >>
          /\ data = << >>
          /\ Returned = execute_revm_sequential
    /\ phase = "parallel" =>
          /\ ~ExceedsRatio
          /\ workers # {}
          /\ DOMAIN transactions_status = TxIdxs

\* C30 witness: a block of 11 transactions of one sender, 10 of them with a
\* seeded dependency, has been handed to execute_revm_sequential.
C30_Witness ==
    /\ phase = "sequential"
    /\ BlockSize = 11
    /\ SeededCount = 10

MvOrigins(origins) == SelectSeq(origins, LAMBDA o : o.o = "MvMemory")

\* The origins are versions at k-1, k-2, ... with nothing left out, and
\* Storage comes after them only when they reach index 0.
Consecutive(k, origins) ==
    LET mv == MvOrigins(origins)
    IN  /\ Len(mv) >= 1
        /\ \A i \in 1 .. Len(mv) : mv[i].tx_idx = k - i
        /\ \/ origins = mv
           \/ origins = Append(mv, OStorage) /\ Len(mv) = k

\* The origins are the entries of m from k-1 downward: LazyBalanceAddition
\* entries in their current incarnation, closed by a Basic entry or by
\* storage below index 0.
ConsumedChain(m, k, origins) ==
    LET mv == MvOrigins(origins)
    IN  /\ Consecutive(k, origins)
        /\ \A i \in 1 .. Len(mv) :
              /\ m[k - i] \notin {NoEntry, Estimate}
              /\ m[k - i].inc = mv[i].tx_incarnation
              /\ i < Len(mv) => m[k - i].val.t = "LazyBalanceAddition"
        /\ m[k - Len(mv)].val.t = IF origins = mv THEN "Basic" ELSE "LazyBalanceAddition"

\* C32: a read of the beneficiary account by a transaction k > 0 answers
\* Blocked(k-1) or a value, and Blocked(k-1) whenever the highest entry of
\* the beneficiary below k is not a Data entry at k-1.  A value comes from
\* entries at k-1, k-2, ... without a gap, down to a Basic entry or down to
\* index 0 and storage; the beneficiary reads a running execution holds were
\* all made that way.
C32_BeneficiaryConsecutive ==
    /\ \A k \in TxIdxs \ {0} :
          LET m == data[Basic(Coinbase)]
              r == VmDbBasic(k, Coinbase)
          IN  /\ r.r \in {"Ok", "Blocked"}
              /\ r.r = "Blocked" => r = Blocked(k - 1)
              /\ (Below(m, k) # k - 1 \/ m[k - 1] = Estimate) => r = Blocked(k - 1)
              /\ r.r = "Ok" => ConsumedChain(m, k, r.origins)
    /\ \A w \in workers :
          (task[w].t = "Execution" /\ task[w].tx_idx > 0) =>
              \A i \in 1 .. Len(db[w]) :
                  db[w][i].loc = Basic(Coinbase) =>
                      Consecutive(task[w].tx_idx, db[w][i].origins)

\* C32 witness: a transaction sent by the beneficiary is being blocked on
\* the transaction right below it, whose entry for the beneficiary is a Data
\* entry: the chain below that entry has a gap.
C32_Witness ==
    \E w \in workers :
        /\ pc[w] = "add_dependency"
        /\ task[w].t = "Execution"
        /\ task[w].tx_idx > 0
        /\ Tx(task[w].tx_idx).caller = Coinbase
        /\ retried_tx[task[w].tx_idx] = 0
        /\ blocking[w] = task[w].tx_idx - 1
        /\ data[Basic(Coinbase)][blocking[w]] \notin {NoEntry, Estimate}
        /\ VmDbBasic(task[w].tx_idx, Coinbase) = Blocked(blocking[w])

\* ------------------------------------------------ reads of account locations

\* The entries a scan of m downward from k meets: those below k with nothing
\* but LazyBalanceAddition entries between them and k.
Traversed(m, k) ==
    {j \in TxIdxs :
        /\ j < k
        /\ m[j] # NoEntry
        /\ \A i \in (j + 1) .. (k - 1) :
              m[i] = NoEntry \/ (m[i] # Estimate /\ m[i].val.t = "LazyBalanceAddition")}

\* The LazyBalanceAddition entries among the indices S, added up.
RECURSIVE SumOfAdditions(_, _)
SumOfAdditions(m, S) ==
    IF S = {} THEN 0
    ELSE LET j == CHOOSE i \in S : TRUE
         IN  (IF m[j] # Estimate /\ m[j].val.t = "LazyBalanceAddition" THEN m[j].val.add ELSE 0)
                 + SumOfAdditions(m, S \ {j})

\* The versions at the indices S, highest index first.
RECURSIVE Descending(_, _)
Descending(m, S) ==
    IF S = {} THEN << >>
    ELSE LET j == CHOOSE i \in S : \A l \in S : l <= i
         IN  <<OMv(j, m[j].inc)>> \o Descending(m, S \ {j})

\* C33: for every account and reader k, an Estimate among the entries the
\* scan meets makes the read Blocked; a read that gives a value gives the
\* first Basic entry met, or the account in storage when none is met, with
\* the LazyBalanceAddition entries met added to its balance, and records the
\* versions met from the highest index down, then Storage when no Basic
\* entry was met.  An account other than the beneficiary is blocked by
\* nothing but an Estimate, on the index of that Estimate.
C33_LazyRead ==
    \A addr \in Addrs : \A k \in TxIdxs :
        LET m == data[Basic(addr)]
            r == VmDbBasic(k, addr)
            T == IF k > 0 THEN Traversed(m, k) ELSE {}
            E == {j \in T : m[j] = Estimate}
            B == {j \in T : m[j] # Estimate /\ m[j].val.t = "Basic"}
        IN  /\ r.r \in {"Ok", "Blocked"}
            /\ E # {} => r.r = "Blocked"
            /\ (addr # Coinbase /\ E = {}) => r.r = "Ok"
            /\ (addr # Coinbase /\ E # {}) => \E j \in E : r = Blocked(j)
            /\ r.r = "Blocked" => DOMAIN r = {"r", "blocking_tx_idx"}
            /\ r.r = "Ok" =>
                  /\ E = {}
                  /\ Cardinality(B) <= 1
                  /\ LET base == IF B = {} THEN pre.basic[addr]
                                 ELSE m[CHOOSE j \in B : TRUE].val.info
                     IN  r.val = [base EXCEPT !.balance = @ + SumOfAdditions(m, T)]
                  /\ r.origins = Descending(m, T)
                                    \o (IF B = {} THEN <<OStorage>> ELSE << >>)

\* C33 witness: a running execution has read an account from two versions
\* and storage, which the multi-version memory still holds, and its balance is
\* above the balance in storage by the additions of the two versions.
C33_Witness ==
    /\ \E w \in workers :
          /\ task[w].t = "Execution"
          /\ \E i \in 1 .. Len(db[w]) :
                /\ db[w][i].loc \in {Basic(a) : a \in Addrs}
                /\ Len(db[w][i].origins) = 3
                /\ db[w][i] = [loc |-> db[w][i].loc,
                               val |-> VmDbBasic(task[w].tx_idx, db[w][i].loc[2]).val,
                               origins |-> VmDbBasic(task[w].tx_idx, db[w][i].loc[2]).origins]
                /\ db[w][i].val.balance > pre.basic[db[w][i].loc[2]].balance

\* ------------------------------------------------ validation of lazy chains

\* The indices of the versions among the origins recorded for a location.
ChainIdxs(origins) ==
    {origins[n].tx_idx : n \in {i \in 1 .. Len(origins) : origins[i].o = "MvMemory"}}

\* Some origin recorded by k for loc is not what the memory holds now: its
\* entry was rewritten by another incarnation, removed or turned into an
\* Estimate, or there is an entry inside the span of the chain that the read
\* did not meet.
ChainBroken(k, loc) ==
    LET origins == last_read_set[k][loc]
        m       == data[loc]
        idxs    == ChainIdxs(origins)
        low     == IF OStorage \in {origins[n] : n \in 1 .. Len(origins)} \/ idxs = {}
                   THEN 0
                   ELSE CHOOSE j \in idxs : \A i \in idxs : j <= i
    IN  \/ \E n \in 1 .. Len(origins) :
              /\ origins[n].o = "MvMemory"
              /\ \/ m[origins[n].tx_idx] \in {NoEntry, Estimate}
                 \/ m[origins[n].tx_idx].inc # origins[n].tx_incarnation
        \/ \E j \in low .. (k - 1) : j \notin idxs /\ m[j] # NoEntry

\* C34 as claimed: whenever an entry of the chain recorded for a location
\* read by k is no longer what the memory holds, validate_read_set(k) fails.
C34_WholeChainValidated ==
    \A k \in TxIdxs : \A loc \in DOMAIN last_read_set[k] :
        ChainBroken(k, loc) => ~validate_read_set(k)

\* ------------------------------------------------ next_validation_idx

\* The worker stores the outcome of an execution of its transaction.
Records(w) == pc[w] = "record" /\ pc'[w] = "finish_execution"

\* The index the recorded read-set and written locations of k call for.
ValidationIdxOf(k, read_locations, written_locations) ==
    LET own == {Basic(Tx(k).caller), Basic(Tx(k).to)}
    IN  IF k = 0 THEN -1
        ELSE IF read_locations \ own # {} THEN k
        ELSE IF written_locations \ (own \cup {Basic(Coinbase)}) # {} THEN k + 1
        ELSE -1

BeneficiaryEntries(write_set) ==
    {i \in 1 .. Len(write_set) : write_set[i][1] = Basic(Coinbase)}

\* The write-set of the execution on the reads d before the rewards.
WritesBeforeRewards(tx_idx, d) ==
    LET res == Evm(Tx(tx_idx), ViewOf(Tx(tx_idx), d))
    IN  AccountWrites(Tx(tx_idx), res, ReadAccounts(d)) \o StorageWrites(res)

\* The balance a value of an account location carries.
Carried(v) == IF v.t = "Basic" THEN v.info.balance ELSE v.add

\* C36: the write-set an execution is recorded with holds the beneficiary
\* location exactly once: where the execution wrote the beneficiary itself,
\* that entry with the reward added and its kind kept, otherwise a
\* LazyBalanceAddition of the reward after the other entries, which are left
\* as they were.  Every Executed or Validated transaction has a Data entry of
\* its incarnation for the beneficiary at its own index.
C36_BeneficiaryEntry ==
    /\ \A w \in workers :
          pc[w] = "record" =>
              LET before == WritesBeforeRewards(task[w].tx_idx, db[w])
                  after  == VmExecute(task[w].tx_idx, db[w], MaxRetries).write_set
                  hits   == BeneficiaryEntries(before)
                  others(ws) == SelectSeq(ws, LAMBDA e : e[1] # Basic(Coinbase))
              IN  /\ Cardinality(BeneficiaryEntries(after)) = 1
                  /\ others(after) = others(before)
                  /\ LET e == after[CHOOSE i \in BeneficiaryEntries(after) : TRUE]
                     IN  IF hits = {}
                         THEN e[2] = VLazy(Fee) /\ after = Append(before, e)
                         ELSE /\ Len(after) = Len(before)
                              /\ \E i \in hits :
                                    /\ e[2].t = before[i][2].t
                                    /\ Carried(e[2]) = Carried(before[i][2]) + Fee
    /\ \A k \in TxIdxs :
          transactions_status[k].status \in {"Executed", "Validated"} =>
              /\ data[Basic(Coinbase)][k] \notin {NoEntry, Estimate}
              /\ data[Basic(Coinbase)][k].inc = Inc(k)
              /\ Basic(Coinbase) \in last_written_locations[k]

\* C36 witness: a transaction sent by the beneficiary is Executed with a
\* Basic entry for the beneficiary at its own index, and a transaction that
\* does not touch the beneficiary is Executed with a LazyBalanceAddition.
C36_Witness ==
    /\ \E k \in TxIdxs :
          /\ transactions_status[k].status = "Executed"
          /\ Tx(k).caller = Coinbase
          /\ data[Basic(Coinbase)][k].val.t = "Basic"
    /\ \E k \in TxIdxs :
          /\ transactions_status[k].status \in {"Executed", "Validated"}
          /\ Tx(k).caller # Coinbase
          /\ data[Basic(Coinbase)][k].val = VLazy(Fee)

\* ------------------------------------------------ one executor per version

\* The versions that have been handed out for execution so far: every
\* incarnation below the current one, and the current one once it has left
\* ReadyToExecute.
HandedOut(version) ==
    \/ version.tx_incarnation < Inc(version.tx_idx)
    \/ version.tx_incarnation = Inc(version.tx_idx)
          /\ Status(version.tx_idx) # "ReadyToExecute"

\* Worker w is handed an execution task in this step.
HandedExecution(w) == task'[w].t = "Execution" /\ task'[w] # task[w]

\* C37: no two workers hold an execution task for the same transaction, and
\* the holder's version is the one the scheduler has as Executing; a version
\* is handed out for execution only when it has not been handed out before,
\* the retry after add_dependency returned false keeping the task the worker
\* has; record and the result slot of a transaction are written by the
\* holder of its execution task alone.
C37_SingleExecutor ==
    /\ [](\A w \in workers :
             task[w].t = "Execution" =>
                 /\ transactions_status[task[w].tx_idx]
                       = St(task[w].tx_incarnation, "Executing")
                 /\ \A u \in workers \ {w} :
                       ~(task[u].t = "Execution" /\ task[u].tx_idx = task[w].tx_idx))
    /\ [][/\ \A w \in workers :
                HandedExecution(w) =>
                    ~HandedOut(Version(task'[w].tx_idx, task'[w].tx_incarnation))
          /\ \A w \in workers :
                (pc[w] = "add_dependency" /\ pc'[w] = "execute") =>
                    /\ task'[w] = task[w]
                    /\ ~add_dependency(task[w].tx_idx, blocking[w])
          /\ \A k \in TxIdxs :
                (execution_results'[k] # execution_results[k]
                    \/ last_read_set'[k] # last_read_set[k]
                    \/ last_written_locations'[k] # last_written_locations[k]) =>
                    \E w \in workers :
                        /\ Records(w)
                        /\ task[w].t = "Execution"
                        /\ task[w].tx_idx = k]_vars

\* C37 witness: a worker runs an incarnation above 0 of a transaction while
\* the other worker holds an execution task for another transaction.
C37_Witness ==
    \E w \in workers : \E u \in workers \ {w} :
        /\ task[w].t = "Execution"
        /\ task[w].tx_incarnation > 0
        /\ pc[w] = "record"
        /\ task[u].t = "Execution"
        /\ pc[u] \in {"execute", "record"}

\* ------------------------------------------------ superseded validations

\* Worker w holds a validation task for a version that has been followed by
\* a later incarnation of its transaction.
Superseded(w) ==
    /\ task[w].t = "Validation"
    /\ task[w].tx_incarnation < Inc(task[w].tx_idx)

\* Worker w takes a step of its own.
StepOf(w) == pc'[w] # pc[w] \/ task'[w] # task[w]

\* C38: no step of a validation task for a superseded version changes a
\* status, the multi-version memory, execution_idx or validation_idx, whether
\* the read-set was found valid or not; the worker never reaches the
\* conversion to Estimates and leaves the task with nothing to execute.
C38_SupersededValidation ==
    [][\A w \in workers :
          (Superseded(w) /\ StepOf(w)) =>
              /\ UNCHANGED <<transactions_status, transactions_dependents,
                             transactions_dependencies, execution_idx, validation_idx>>
              /\ UNCHANGED mv_vars
              /\ pc'[w] # "convert_writes_to_estimates"
              /\ task'[w] \in {task[w], NoTask}]_vars

\* C38 witness: a worker whose validation of a superseded version found the
\* read-set invalid has been refused the abort and is about to call
\* finish_validation.
C38_Witness ==
    \E w \in workers :
        /\ Superseded(w)
        /\ pc[w] = "finish_validation"
        /\ ~flag[w]
        /\ TaskVersion(w) \in refused_aborts

\* ------------------------------------------------ executions that end blocked

\* Worker w ends an execution in a blocked read, or hands the blocked
\* transaction to add_dependency.
EndsBlocked(w) ==
    \/ /\ pc[w] \in {"loop", "execute"}
       /\ task[w].t = "Execution"
       /\ pc'[w] = "add_dependency"
    \/ /\ pc[w] = "add_dependency"
       /\ pc'[w] # "add_dependency"

C40_DoneCommitted ==
    done =>
        /\ \A k \in TxIdxs : Status(k) \in {"Executed", "Validated"}
        /\ \A k \in TxIdxs : execution_results[k] # NoResult
        /\ \A k \in TxIdxs :
              transactions_dependents[k] = {} /\ transactions_dependencies[k] = {}

\* C40 witness: done() holds for a block in which a transaction above 0 was
\* sent back once by the retry of a failed execution, had its first
\* incarnation aborted, and has a stored result.
C40_Witness ==
    /\ done
    /\ \E k \in TxIdxs \ {0} :
          /\ retried_tx[k] >= 1
          /\ Version(k, 0) \in aborted_versions
          /\ Inc(k) >= 1
          /\ execution_results[k] # NoResult

=============================================================================
